---- MODULE Spec2Model ----
(***************************************************************************)
(* Batch inscription transaction construction of                           *)
(* src/subcommand/wallet/inscribe/batch.rs, as a state machine.            *)
(*                                                                         *)
(* One call of Batch::inscribe is modelled as a sequence of steps (ipc);   *)
(* its call of Batch::create_batch_inscription_transactions is a sequence  *)
(* of stages (pc).  The Batch configuration and the arguments of the call  *)
(* are drawn in Init.  Option<T> is a sequence of length 0 (None) or 1     *)
(* (Some).  Sequences are 1-based: Rust index i is i + 1.                  *)
(*                                                                         *)
(* One call of Batchfile::inscriptions is a second state machine           *)
(* (BatchfileSpec) over the bf_ variables, which stay idle in Spec.        *)
(***************************************************************************)
EXTENDS Integers, Sequences, FiniteSets, TLC

VARIABLES
  batch,               \* self: the Batch configuration
  env,                 \* the arguments of the call
  pc,                  \* the stage of the call
  result,              \* outcome of the call: status and error
  satpoint,            \* let satpoint (Option)
  reinscription,       \* let mut reinscription
  key_pair,            \* let key_pair (Option)
  reveal_script,       \* let reveal_script (Option, the script's length)
  total_postage,       \* let total_postage
  reveal_inputs,       \* let mut reveal_inputs
  reveal_outputs,      \* let mut reveal_outputs
  reveal_fee,          \* let (_, mut reveal_fee)
  unsigned_commit_tx,  \* let unsigned_commit_tx (Option)
  utxos,               \* mut utxos
  reveal_tx,           \* let (mut reveal_tx, _fee) (Option)
  prevouts,            \* let mut prevouts
  total_fees,          \* let total_fees
  change_arg,          \* Batch::inscribe's argument change (Option)
  ipc,                 \* the step of Batch::inscribe
  calls,               \* the calls made to the index and to the RPC client
  builder_calls,       \* the calls made of TransactionBuilder: their arguments
  imported,            \* the recovery key was imported into the wallet
  broadcast,           \* the txids accepted by the network, in order
  signed_commit_tx,    \* let signed_commit_tx (Option: None is the empty Vec)
  signed_reveal_tx,    \* let signed_reveal_tx (Option)
  commit_result,       \* let (commit, reveal): the commit txid (Option)
  reveal_result,       \* let (commit, reveal): the reveal txid (Option)
  report,              \* the Output returned (Option)
  returned,            \* outcome of Batch::inscribe: status and error
  bf_call,             \* Batchfile::inscriptions: self and the arguments
  bf_pc,               \* Batchfile::inscriptions: the position in the call
  bf_pointer,          \* let mut pointer
  bf_inscriptions,     \* let mut inscriptions
  bf_destinations,     \* let destinations
  bf_calls,            \* the calls made of the RPC client
  bf_result            \* outcome of Batchfile::inscriptions

vars == <<batch, env, pc, result, satpoint, reinscription, key_pair,
          reveal_script, total_postage, reveal_inputs, reveal_outputs,
          reveal_fee, unsigned_commit_tx, utxos, reveal_tx, prevouts,
          total_fees, change_arg, ipc, calls, builder_calls, imported,
          broadcast,
          signed_commit_tx, signed_reveal_tx, commit_result, reveal_result,
          report,
          returned, bf_call, bf_pc, bf_pointer, bf_inscriptions,
          bf_destinations, bf_calls, bf_result>>

\* the state of a call of Batchfile::inscriptions
batchfile_vars == <<bf_call, bf_pc, bf_pointer, bf_inscriptions,
                    bf_destinations, bf_calls, bf_result>>

\* the state of a call of Batch::inscribe
batch_vars == <<batch, env, pc, result, satpoint, reinscription, key_pair,
                reveal_script, total_postage, reveal_inputs, reveal_outputs,
                reveal_fee, unsigned_commit_tx, utxos, reveal_tx, prevouts,
                total_fees, change_arg, ipc, calls, builder_calls, imported,
                broadcast, signed_commit_tx, signed_reveal_tx, commit_result,
                reveal_result, report, returned>>

\* what the stages of the construction leave alone
outer == <<change_arg, ipc, imported, broadcast, signed_commit_tx,
           signed_reveal_tx, commit_result, reveal_result, report, returned,
           batchfile_vars>>

---------------------------------------------------------------------------
(* Bounds of the model *)

MaxInscriptions == 2
MaxDestinations == 2
MaxRevealInputs == 2

(* Program constants *)

MAX_STANDARD_TX_WEIGHT == 400000
SCHNORR_SIGNATURE_SIZE == 64
TARGET_POSTAGE == 10000

---------------------------------------------------------------------------
(* Option, sequences *)

None == << >>
Some(x) == <<x>>
IsSome(o) == Len(o) > 0
IsNone(o) == Len(o) = 0
Unwrap(o) == o[1]

RECURSIVE SumSeq(_)
SumSeq(s) == IF s = << >> THEN 0 ELSE Head(s) + SumSeq(Tail(s))

Insert0(s, x) == <<x>> \o s

MapSeq(s, F(_)) == [i \in 1..Len(s) |-> F(s[i])]

---------------------------------------------------------------------------
(* OutPoint, SatPoint, scripts *)

OutPoint(t, v) == [txid |-> t, vout |-> v]
\* OutPoint::null(): the all-zero txid and the largest vout (u32::MAX, here
\* the largest integer of the checker)
OutPointNull == OutPoint(0, 2147483647)
SatPoint(o, off) == [outpoint |-> o, offset |-> off]

\* derived Ord of OutPoint: txid, then vout
OutPointLess(a, b) ==
  \/ a.txid < b.txid
  \/ a.txid = b.txid /\ a.vout < b.vout

\* derived Ord of SatPoint: outpoint, then offset
SatPointLess(a, b) ==
  \/ OutPointLess(a.outpoint, b.outpoint)
  \/ a.outpoint = b.outpoint /\ a.offset < b.offset

\* the keys of a BTreeMap / BTreeSet in iteration order
RECURSIVE SortedOutPoints(_)
SortedOutPoints(S) ==
  IF S = {} THEN << >>
  ELSE LET m == CHOOSE x \in S : \A y \in S \ {x} : OutPointLess(x, y)
       IN <<m>> \o SortedOutPoints(S \ {m})

RECURSIVE SortedSatPoints(_)
SortedSatPoints(S) ==
  IF S = {} THEN << >>
  ELSE LET m == CHOOSE x \in S : \A y \in S \ {x} : SatPointLess(x, y)
       IN <<m>> \o SortedSatPoints(S \ {m})

Script(k, who) == [kind |-> k, owner |-> who]

\* serialized length of a script_pubkey
ScriptLen(s) ==
  CASE s.kind = "p2wpkh" -> 22
    [] s.kind = "p2tr"   -> 34
    [] s.kind = "p2pkh"  -> 25

IsWitnessProgram(s) == s.kind \in {"p2wpkh", "p2tr"}

VarIntLen(n) ==
  IF n < 253 THEN 1
  ELSE IF n <= 65535 THEN 3
  ELSE 5  \* no length of the model reaches 2^32

\* script_pubkey.dust_value(): 3 sat/vB over the output and the input spending it
dust_value(s) ==
  3 * ( (IF IsWitnessProgram(s) THEN 32 + 4 + 1 + (107 \div 4) + 4
                                ELSE 32 + 4 + 1 + 107 + 4)
        + 8 + VarIntLen(ScriptLen(s)) + ScriptLen(s) )

TxOut(s, v) == [script_pubkey |-> s, value |-> v]

---------------------------------------------------------------------------
(* Transactions.  A witness is the sequence of the lengths of its items. *)

TxIn(o, w) ==
  [previous_output |-> o, witness |-> w, sequence |-> "ENABLE_RBF_NO_LOCKTIME"]

Transaction(ver, ins, outs) == [version |-> ver, input |-> ins, output |-> outs]

\* Witness::serialized_len
WitnessLen(w) ==
  VarIntLen(Len(w)) + SumSeq([i \in 1..Len(w) |-> VarIntLen(w[i]) + w[i]])

\* Transaction::weight: four units per non-witness byte, one per witness byte
weight(tx) ==
  LET input_weight ==
        SumSeq([i \in 1..Len(tx.input) |->
                  4 * (32 + 4 + 4 + 1)
                  + (IF tx.input[i].witness = << >> THEN 0
                     ELSE WitnessLen(tx.input[i].witness))])
      inputs_with_witnesses ==
        Cardinality({i \in 1..Len(tx.input) : tx.input[i].witness # << >>})
      output_size ==
        SumSeq([i \in 1..Len(tx.output) |->
                  8 + VarIntLen(ScriptLen(tx.output[i].script_pubkey))
                    + ScriptLen(tx.output[i].script_pubkey)])
      non_input_size ==
        4 + VarIntLen(Len(tx.input)) + VarIntLen(Len(tx.output)) + output_size + 4
  IN IF inputs_with_witnesses = 0
       THEN non_input_size * 4 + input_weight
       ELSE non_input_size * 4 + input_weight
            + Len(tx.input) - inputs_with_witnesses + 2

\* Transaction::vsize: weight in virtual bytes, rounded up
vsize(tx) == (weight(tx) + 3) \div 4

\* Transaction::txid: a hash of the transaction without its witnesses
txid(tx) ==
  1000 * tx.version + 100 * Len(tx.input) + 10 * Len(tx.output)
  + (SumSeq([i \in 1..Len(tx.output) |-> tx.output[i].value]) % 10)

\* FeeRate::fee: the rate (thousandths of a sat per vbyte) times the size,
\* rounded to whole sats
FeeRateFee(rate, size) == (2 * rate * size + 1000) \div 2000

\* length of ControlBlock::serialize for a single leaf: version byte and key
ControlBlockLen == 33

\* the witness that spends the commit output: signature, script, control block
CommitWitness(script) == <<SCHNORR_SIGNATURE_SIZE, script, ControlBlockLen>>

\* build_reveal_transaction that sizes the transaction without its witnesses
build_reveal_transaction_NoWitness(fee_rate, inputs, commit_input_index, outputs, script) ==
  LET tx == Transaction(2, [i \in 1..Len(inputs) |-> TxIn(inputs[i], << >>)],
                        outputs)
  IN [tx |-> tx, fee |-> FeeRateFee(fee_rate, vsize(tx))]

\* build_reveal_transaction that charges one sat per vbyte at every rate
build_reveal_transaction_FlatFee(fee_rate, inputs, commit_input_index, outputs, script) ==
  LET tx == Transaction(2, [i \in 1..Len(inputs) |-> TxIn(inputs[i], << >>)],
                        outputs)
      dummy ==
        [tx EXCEPT !.input =
           [i \in 1..Len(inputs) |->
              IF i = commit_input_index + 1
                THEN TxIn(inputs[i], CommitWitness(script))
                ELSE TxIn(inputs[i], <<SCHNORR_SIGNATURE_SIZE>>)]]
  IN [tx |-> tx, fee |-> FeeRateFee(1000, vsize(dummy))]

build_reveal_transaction(fee_rate, inputs, commit_input_index, outputs, script) ==
  LET tx == Transaction(2, [i \in 1..Len(inputs) |-> TxIn(inputs[i], << >>)],
                        outputs)
      dummy ==
        [tx EXCEPT !.input =
           [i \in 1..Len(inputs) |->
              IF i = commit_input_index + 1
                THEN TxIn(inputs[i], CommitWitness(script))
                ELSE TxIn(inputs[i], <<SCHNORR_SIGNATURE_SIZE>>)]]
  IN [tx |-> tx, fee |-> FeeRateFee(fee_rate, vsize(dummy))]

\* calculate_fee that forgets the outputs
calculate_fee_InputsOnly(tx, map) ==
  IF \A i \in 1..Len(tx.input) : tx.input[i].previous_output \in DOMAIN map
    THEN Some(SumSeq([i \in 1..Len(tx.input) |-> map[tx.input[i].previous_output]]))
    ELSE None

calculate_fee(tx, map) ==
  LET ins  == SumSeq([i \in 1..Len(tx.input) |-> map[tx.input[i].previous_output]])
      outs == SumSeq([i \in 1..Len(tx.output) |-> tx.output[i].value])
  IN IF \A i \in 1..Len(tx.input) : tx.input[i].previous_output \in DOMAIN map
       THEN (IF ins >= outs THEN Some(ins - outs) ELSE None)
       ELSE None

---------------------------------------------------------------------------
(* The coin-selection collaborator (TransactionBuilder), from its contract: *)
(* spend the outpoint of the satpoint first, keep the sat at offset 0 of    *)
(* the commit output, add cardinal utxos in key order until the target and  *)
(* the fee are covered, pay the target to the recipient and the rest to     *)
(* change (Target::Value) or everything to the recipient (Target::NoChange).*)

Target(k, v) == [kind |-> k, value |-> v]

Ok(x) == [ok |-> TRUE, value |-> x]
Err(e) == [ok |-> FALSE, error |-> e]

FundingFee(fee_rate, ins, outs) ==
  FeeRateFee(fee_rate,
    vsize(Transaction(2, [i \in 1..Len(ins) |->
                            TxIn(ins[i], <<SCHNORR_SIGNATURE_SIZE>>)], outs)))

RECURSIVE FundFrom(_, _, _, _, _, _, _, _)
FundFrom(sp, map, ins, rest, recipient, change, fee_rate, target) ==
  LET total   == SumSeq([i \in 1..Len(ins) |-> map[ins[i]]])
      align   == IF sp.offset > 0 THEN <<TxOut(change[1], sp.offset)>> ELSE << >>
      plain   == align \o <<TxOut(recipient, target.value)>>
      fee     == FundingFee(fee_rate, ins, plain)
      withChg == plain \o <<TxOut(change[2], 0)>>
      feeChg  == FundingFee(fee_rate, ins, withChg)
      left    == total - sp.offset - target.value - feeChg
  IN IF total >= sp.offset + target.value + fee
       THEN IF target.kind = "NoChange"
              THEN Ok(Transaction(2, [i \in 1..Len(ins) |-> TxIn(ins[i], << >>)],
                        align \o <<TxOut(recipient, total - sp.offset - fee)>>))
            ELSE IF left >= dust_value(change[2])
              THEN Ok(Transaction(2, [i \in 1..Len(ins) |-> TxIn(ins[i], << >>)],
                        plain \o <<TxOut(change[2], left)>>))
            ELSE Ok(Transaction(2, [i \in 1..Len(ins) |-> TxIn(ins[i], << >>)],
                        plain))
     ELSE IF rest = << >>
       THEN Err([kind |-> "not enough cardinal utxos"])
     ELSE FundFrom(sp, map, Append(ins, Head(rest)), Tail(rest), recipient,
                   change, fee_rate, target)

build_transaction(sp, wallet_inscriptions, map, locked, runic, recipient, change, fee_rate, target, force_input) ==
  LET inscribed == {k.outpoint : k \in DOMAIN wallet_inscriptions}
      forced    == {force_input[i] : i \in 1..Len(force_input)}
      cardinal  == {o \in DOMAIN map :
                      /\ o \notin inscribed \cup locked \cup runic \cup forced
                      /\ o # sp.outpoint}
  IN IF sp.outpoint \notin DOMAIN map
          \/ \E i \in 1..Len(force_input) : force_input[i] \notin DOMAIN map
       THEN Err([kind |-> "output not in wallet"])
     ELSE FundFrom(sp, map, <<sp.outpoint>> \o force_input,
                   SortedOutPoints(cardinal), recipient, change, fee_rate, target)

---------------------------------------------------------------------------
(* Stages of create_batch_inscription_transactions *)

Error(k) == [kind |-> k]

\* inscriptions all name the parent of parent_info
ParentsMatch(b) ==
  IsSome(b.parent_info) =>
    \A i \in 1..Len(b.inscriptions) :
      /\ IsSome(b.inscriptions[i].parent)
      /\ Unwrap(b.inscriptions[i].parent) = Unwrap(b.parent_info).id

\* ModeCheck without the arm for SeparateOutputs
ModeCheck_NoSeparateArm(b) ==
  b.mode = "SeparateOutputs" \/ Len(b.destinations) = 1

\* ModeCheck that looks at SameSat only
ModeCheck_OnlySameSat(b) ==
  b.mode = "SameSat" => Len(b.destinations) = 1

\* the match on self.mode
ModeCheck(b) ==
  CASE b.mode = "SameSat"         -> Len(b.destinations) = 1
    [] b.mode = "SeparateOutputs" -> Len(b.destinations) = Len(b.inscriptions)
    [] b.mode = "SharedOutput"    -> Len(b.destinations) = 1

\* the first utxo, in key order, that is not empty, inscribed, locked or runic
\* FirstCardinal that takes locked utxos too
FirstCardinal_TakesLocked(wallet_inscriptions, map, locked, runic) ==
  LET inscribed_utxos == {k.outpoint : k \in DOMAIN wallet_inscriptions}
      found == {o \in DOMAIN map :
                  /\ map[o] > 0
                  /\ o \notin inscribed_utxos
                  /\ o \notin runic}
  IN IF found = {} THEN None
     ELSE Some(SatPoint(SortedOutPoints(found)[1], 0))

FirstCardinal(wallet_inscriptions, map, locked, runic) ==
  LET inscribed_utxos == {k.outpoint : k \in DOMAIN wallet_inscriptions}
      found == {o \in DOMAIN map :
                  /\ map[o] > 0
                  /\ o \notin inscribed_utxos
                  /\ o \notin locked
                  /\ o \notin runic}
  IN IF found = {} THEN None
     ELSE Some(SatPoint(SortedOutPoints(found)[1], 0))

SelectSatpoint(b, e) ==
  IF IsSome(b.commitment) THEN Ok(SatPoint(OutPoint(0, 0), 0))
  ELSE IF IsSome(b.satpoint) THEN Ok(Unwrap(b.satpoint))
  ELSE LET c == FirstCardinal(e.wallet_inscriptions, e.utxos, e.locked_utxos,
                              e.runic_utxos)
       IN IF IsSome(c) THEN Ok(Unwrap(c))
          ELSE Err(Error("wallet contains no cardinal utxos"))

\* the loop with an inscribed target always let through
RECURSIVE InscribedLoop_ExactMatchPasses(_, _, _, _, _)
InscribedLoop_ExactMatchPasses(keys, wallet_inscriptions, sp, reinscribe, seen) ==
  IF keys = << >> THEN [reinscription |-> seen, error |-> None]
  ELSE LET inscribed_satpoint == Head(keys) IN
    IF inscribed_satpoint = sp
      THEN InscribedLoop_ExactMatchPasses(Tail(keys), wallet_inscriptions, sp,
                                          reinscribe, TRUE)
    ELSE IF inscribed_satpoint.outpoint = sp.outpoint
      THEN [reinscription |-> seen,
            error |-> Some([kind |-> "utxo already inscribed",
                            outpoint |-> sp.outpoint,
                            inscription_id |-> wallet_inscriptions[inscribed_satpoint],
                            inscribed_satpoint |-> inscribed_satpoint])]
    ELSE InscribedLoop_ExactMatchPasses(Tail(keys), wallet_inscriptions, sp,
                                        reinscribe, seen)

\* the loop with the outpoint comparison skipped under reinscribe
RECURSIVE InscribedLoop_ReinscribeSkipsOutpoint(_, _, _, _, _)
InscribedLoop_ReinscribeSkipsOutpoint(keys, wallet_inscriptions, sp, reinscribe, seen) ==
  IF keys = << >> THEN [reinscription |-> seen, error |-> None]
  ELSE LET inscribed_satpoint == Head(keys) IN
    IF inscribed_satpoint = sp /\ ~reinscribe
      THEN [reinscription |-> TRUE,
            error |-> Some([kind |-> "sat already inscribed", satpoint |-> sp])]
    ELSE IF inscribed_satpoint.outpoint = sp.outpoint /\ ~reinscribe
      THEN [reinscription |-> seen,
            error |-> Some([kind |-> "utxo already inscribed",
                            outpoint |-> sp.outpoint,
                            inscription_id |-> wallet_inscriptions[inscribed_satpoint],
                            inscribed_satpoint |-> inscribed_satpoint])]
    ELSE InscribedLoop_ReinscribeSkipsOutpoint(Tail(keys), wallet_inscriptions, sp,
                                               reinscribe,
                                               seen \/ inscribed_satpoint = sp)

\* the loop over wallet_inscriptions, in key order
RECURSIVE InscribedLoop(_, _, _, _, _)
InscribedLoop(keys, wallet_inscriptions, sp, reinscribe, seen) ==
  IF keys = << >> THEN [reinscription |-> seen, error |-> None]
  ELSE LET inscribed_satpoint == Head(keys) IN
    IF inscribed_satpoint = sp
      THEN IF reinscribe
             THEN InscribedLoop(Tail(keys), wallet_inscriptions, sp, reinscribe, TRUE)
             ELSE [reinscription |-> TRUE,
                   error |-> Some([kind |-> "sat already inscribed",
                                   satpoint |-> sp])]
    ELSE IF inscribed_satpoint.outpoint = sp.outpoint
      THEN [reinscription |-> seen,
            error |-> Some([kind |-> "utxo already inscribed",
                            outpoint |-> sp.outpoint,
                            inscription_id |-> wallet_inscriptions[inscribed_satpoint],
                            inscribed_satpoint |-> inscribed_satpoint])]
    ELSE InscribedLoop(Tail(keys), wallet_inscriptions, sp, reinscribe, seen)

\* CheckReinscription without the check of the reinscribe flag after the loop
CheckReinscription_NoFlagCheck(b, e, sp) ==
  InscribedLoop(SortedSatPoints(DOMAIN e.wallet_inscriptions),
                e.wallet_inscriptions, sp, b.reinscribe, FALSE)

CheckReinscription(b, e, sp) ==
  LET r == InscribedLoop(SortedSatPoints(DOMAIN e.wallet_inscriptions),
                         e.wallet_inscriptions, sp, b.reinscribe, FALSE)
  IN IF IsSome(r.error) THEN r
     ELSE IF b.reinscribe /\ ~r.reinscription
       THEN [r EXCEPT !.error = Some(Error("not a reinscription"))]
     ELSE r

\* the public key push and OP_CHECKSIG that open the reveal script
RevealScriptPrefixLen == 34

\* Inscription::append_batch_reveal_script: the prefix, then one envelope
\* per inscription
append_batch_reveal_script(inscriptions, prefix) ==
  prefix + SumSeq([i \in 1..Len(inscriptions) |-> inscriptions[i].envelope])

CommitTxAddress == Script("p2tr", "commit")

RevealChangeAddress(b, e) ==
  IF IsSome(b.next_inscription) THEN Script("p2tr", "next_commit")
  ELSE e.change[1]

\* TotalPostage with one postage per inscription in every mode
TotalPostage_PerInscription(b) == b.postage * Len(b.inscriptions)

TotalPostage(b) ==
  CASE b.mode = "SameSat" -> b.postage
    [] b.mode \in {"SharedOutput", "SeparateOutputs"} ->
         b.postage * Len(b.inscriptions)

CommitInput(b) == IF IsSome(b.parent_info) THEN 1 ELSE 0

\* InitialRevealInputs with the parent's outpoint after the placeholder
InitialRevealInputs_ParentSecond(b) ==
  IF IsSome(b.parent_info)
    THEN <<OutPointNull, Unwrap(b.parent_info).location.outpoint>>
           \o b.reveal_input
    ELSE Insert0(b.reveal_input, OutPointNull)

\* reveal_inputs before the commit outpoint is known
InitialRevealInputs(b) ==
  LET own == Insert0(b.reveal_input, OutPointNull)
  IN IF IsSome(b.parent_info)
       THEN Insert0(own, Unwrap(b.parent_info).location.outpoint)
       ELSE own

\* InitialRevealOutputs with the parent's output pushed last, not inserted first
InitialRevealOutputs_ParentLast(b, e) ==
  LET dests == [i \in 1..Len(b.destinations) |->
                  TxOut(b.destinations[i],
                        IF b.mode = "SeparateOutputs" THEN b.postage
                        ELSE b.postage * (IF b.mode = "SameSat" THEN 1
                                          ELSE Len(b.inscriptions)))]
      withParent ==
        IF IsSome(b.parent_info)
          THEN Append(dests, TxOut(Unwrap(b.parent_info).destination,
                                   Unwrap(b.parent_info).tx_out.value))
          ELSE dests
  IN IF IsSome(b.commitment)
       THEN Append(withParent, TxOut(Script("p2tr", "change0"), 0))
       ELSE withParent

\* reveal_outputs before the change value is known
InitialRevealOutputs(b, e) ==
  LET dests == [i \in 1..Len(b.destinations) |->
                  TxOut(b.destinations[i],
                        IF b.mode = "SeparateOutputs" THEN b.postage
                        ELSE TotalPostage(b))]
      withParent ==
        IF IsSome(b.parent_info)
          THEN Insert0(dests, TxOut(Unwrap(b.parent_info).destination,
                                    Unwrap(b.parent_info).tx_out.value))
          ELSE dests
  IN IF IsSome(b.commitment)
       THEN Append(withParent, TxOut(RevealChangeAddress(b, e), 0))
       ELSE withParent

\* EffectiveRevealFee that keeps the estimate when the requested fee is enough
EffectiveRevealFee_KeepsEstimate(b, estimate) ==
  IF IsSome(b.reveal_fee) /\ Unwrap(b.reveal_fee) < estimate
    THEN Err([kind |-> "requested reveal_fee is too small",
              at_least |-> estimate])
    ELSE Ok(estimate)

\* the estimate of the reveal fee, and the requested fee that replaces it
EffectiveRevealFee(b, estimate) ==
  IF IsSome(b.reveal_fee)
    THEN IF Unwrap(b.reveal_fee) < estimate
           THEN Err([kind |-> "requested reveal_fee is too small",
                     at_least |-> estimate])
           ELSE Ok(Unwrap(b.reveal_fee))
    ELSE Ok(estimate)

MapInsert(m, k, v) == [x \in DOMAIN m \cup {k} |-> IF x = k THEN v ELSE m[x]]

RECURSIVE InsertAll(_, _, _)
InsertAll(m, keys, outs) ==
  IF keys = << >> THEN m
  ELSE InsertAll(MapInsert(m, Head(keys), Head(outs).value), Tail(keys), Tail(outs))

\* the first output of the commit transaction that pays the commit address
FindCommitVout(tx) ==
  LET hits == {i \in 1..Len(tx.output) : tx.output[i].script_pubkey = CommitTxAddress}
  IN IF hits = {} THEN None
     ELSE Some((CHOOSE i \in hits : \A j \in hits : i <= j) - 1)

SetIndex(s, i, x) == [s EXCEPT ![i + 1] = x]

\* WithChange that leaves the change output at its initial value
WithChange_Untouched(outs, value) == outs

\* the reveal outputs with the change value filled in
WithChange(outs, value) ==
  IF outs = << >> THEN outs
  ELSE [outs EXCEPT ![Len(outs)] = [@ EXCEPT !.value = value]]

\* DustCheck that refuses nothing
DustCheck_Never(tx, commit_input) == TRUE

\* DustCheck that looks at output 0 whatever the commit input's index
DustCheck_FirstOutput(tx, commit_input) ==
  tx.output[1].value >= dust_value(tx.output[1].script_pubkey)

DustCheck(tx, commit_input) ==
  tx.output[commit_input + 1].value
    >= dust_value(tx.output[commit_input + 1].script_pubkey)

\* Prevouts with the parent's output pushed last
Prevouts_ParentLast(b, commit_tx, vout, reveal_input_prevouts) ==
  LET commit == IF IsSome(b.commitment)
                  THEN TxOut(Unwrap(b.commitment_output).script_pub_key,
                             Unwrap(b.commitment_output).value)
                  ELSE commit_tx.output[vout + 1]
  IN <<commit>> \o reveal_input_prevouts
       \o (IF IsSome(b.parent_info) THEN <<Unwrap(b.parent_info).tx_out>>
           ELSE << >>)

\* prevouts, in input order
Prevouts(b, commit_tx, vout, reveal_input_prevouts) ==
  LET commit == IF IsSome(b.commitment)
                  THEN TxOut(Unwrap(b.commitment_output).script_pub_key,
                             Unwrap(b.commitment_output).value)
                  ELSE commit_tx.output[vout + 1]
      own == <<commit>>
  IN (IF IsSome(b.parent_info)
        THEN Insert0(own, Unwrap(b.parent_info).tx_out)
        ELSE own) \o reveal_input_prevouts

\* the witness of the commit input after signing
SignWitness(tx, commit_input, script) ==
  [tx EXCEPT !.input[commit_input + 1].witness = CommitWitness(script)]

\* WeightCheck that compares the virtual size, not the weight
WeightCheck_VirtualSize(b, w) ==
  b.no_limit \/ (w + 3) \div 4 <= MAX_STANDARD_TX_WEIGHT

WeightCheck(b, w) == b.no_limit \/ w <= MAX_STANDARD_TX_WEIGHT

\* the value registered for the commit output
CommitOutputValue(b, commit_tx, tx, commit_input) ==
  IF IsSome(b.commitment) THEN Unwrap(b.commitment_output).value
  ELSE commit_tx.output[tx.input[commit_input + 1].previous_output.vout + 1].value

TotalFees(b, commit_tx, tx, map) ==
  LET c == IF IsSome(b.commitment) THEN Some(0) ELSE calculate_fee(commit_tx, map)
      r == IF b.commit_only THEN Some(0) ELSE calculate_fee(tx, map)
  IN IF IsSome(c) /\ IsSome(r) THEN Some(Unwrap(c) + Unwrap(r)) ELSE None

---------------------------------------------------------------------------
(* The calls that are explored: Batch configurations and arguments *)

Modes == {"SameSat", "SeparateOutputs", "SharedOutput"}
DestinationKinds == {"p2wpkh", "p2tr"}
Postages == {300, TARGET_POSTAGE}
EnvelopeSizes == {25, 402330}
FeeRates == {1000, 3300}
RevealFees == {None, Some(0), Some(2000)}
CommitmentValues == {5000, 50000}

ParentLocation == SatPoint(OutPoint(1, 0), 0)

TheParentInfo ==
  [destination |-> Script("p2tr", "parent_destination"),
   id          |-> "i1",
   location    |-> ParentLocation,
   tx_out      |-> TxOut(Script("p2tr", "wallet"), 10000)]

\* satpoints of the wallet that may carry an inscription, and what they carry
InscribableSatPoints ==
  {ParentLocation, SatPoint(OutPoint(2, 0), 0), SatPoint(OutPoint(2, 0), 5)}

InscriptionAt(sp) ==
  IF sp = ParentLocation THEN "i1"
  ELSE IF sp.offset = 0 THEN "i2" ELSE "i3"

WalletUtxos(big) ==
  IF big
    THEN (OutPoint(1, 0) :> 10000) @@ (OutPoint(2, 0) :> 20000)
         @@ (OutPoint(3, 0) :> 1000000000)
    ELSE (OutPoint(1, 0) :> 10000) @@ (OutPoint(2, 0) :> 20000)

ExtraInput(k) == OutPoint(8, k - 1)

BatchOf(mode, n, nd, kind, parent, postage, envelope, no_limit, sp, reinscribe, commitment, nri, rfee, commit_only, next, rate) ==
  [commit_fee_rate   |-> rate,
   commit_only       |-> commit_only,
   commitment        |-> IF IsSome(commitment) THEN Some(OutPoint(7, 0)) ELSE None,
   commitment_output |-> IF IsSome(commitment)
                           THEN Some([value |-> Unwrap(commitment),
                                      script_pub_key |-> CommitTxAddress])
                           ELSE None,
   destinations      |-> [i \in 1..nd |-> Script(kind, "recipient")],
   dump              |-> FALSE,
   dry_run           |-> FALSE,
   inscriptions      |-> [i \in 1..n |->
                            [parent   |-> IF parent THEN Some("i1") ELSE None,
                             envelope |-> IF i = 1 THEN envelope ELSE 25]],
   key               |-> IF IsSome(commitment) THEN Some("wif") ELSE None,
   mode              |-> mode,
   next_inscription  |-> IF next THEN Some([parent |-> None, envelope |-> 25])
                         ELSE None,
   no_backup         |-> IsSome(commitment) \/ commit_only,
   no_broadcast      |-> FALSE,
   no_limit          |-> no_limit,
   parent_info       |-> IF parent THEN Some(TheParentInfo) ELSE None,
   postage           |-> postage,
   reinscribe        |-> reinscribe,
   reveal_fee        |-> rfee,
   reveal_fee_rate   |-> rate,
   reveal_input      |-> [k \in 1..nri |-> ExtraInput(k)],
   satpoint          |-> sp]

EnvOf(inscribed, parent, big) ==
  LET keys == inscribed \cup (IF parent THEN {ParentLocation} ELSE {})
  IN [wallet_inscriptions |-> [sp \in keys |-> InscriptionAt(sp)],
      utxos               |-> WalletUtxos(big),
      locked_utxos        |-> {},
      runic_utxos         |-> {},
      index               |-> [o \in {ExtraInput(k) : k \in 1..MaxRevealInputs} |->
                                 TxOut(Script("p2tr", "wallet"), 5000 + 1000 * o.vout)],
      change              |-> <<Script("p2tr", "change0"), Script("p2tr", "change1")>>,
      force_input         |-> << >>]

\* the destination count that the mode asks for
MatchingDestinations(mode, n) == IF mode = "SeparateOutputs" THEN n ELSE 1

\* every count of inscriptions and destinations against every state of the
\* wallet's inscriptions
PolicyConfigs ==
  { [batch |-> BatchOf(mode, n, nd, "p2tr", parent, TARGET_POSTAGE, 25, FALSE,
                       sp, reinscribe, None, 0, None, FALSE, FALSE, 1000),
     env   |-> EnvOf(inscribed, parent, big)] :
      mode \in Modes, n \in 1..MaxInscriptions, nd \in 1..MaxDestinations,
      parent \in BOOLEAN,
      sp \in {None} \cup {Some(x) : x \in InscribableSatPoints},
      reinscribe \in BOOLEAN, inscribed \in SUBSET InscribableSatPoints,
      big \in BOOLEAN }

\* the ways of funding a batch: a fresh commit transaction (commit_only or
\* not), or a supplied commitment with extra reveal inputs
Fundings ==
  { [commitment |-> None, nri |-> 0, commit_only |-> co, next |-> FALSE,
     reinscribe |-> FALSE] : co \in BOOLEAN }
  \cup
  { [commitment |-> Some(v), nri |-> k, commit_only |-> FALSE, next |-> FALSE,
     reinscribe |-> FALSE] : v \in CommitmentValues, k \in 0..MaxRevealInputs }
  \cup
  { [commitment |-> Some(50000), nri |-> 0, commit_only |-> FALSE, next |-> nx,
     reinscribe |-> r] : nx \in BOOLEAN, r \in BOOLEAN }

\* every well-formed shape of batch against every way of funding it
FundingConfigs ==
  { [batch |-> BatchOf(mode, n, MatchingDestinations(mode, n), kind, parent,
                       postage, sz.envelope, sz.no_limit, None, f.reinscribe,
                       f.commitment, f.nri, rfee, f.commit_only, f.next, 1000),
     env   |-> EnvOf({}, parent, TRUE)] :
      mode \in Modes, n \in 1..MaxInscriptions, kind \in DestinationKinds,
      parent \in BOOLEAN, postage \in Postages, rfee \in RevealFees,
      sz \in { [envelope |-> 25, no_limit |-> FALSE],
               [envelope |-> 402330, no_limit |-> FALSE],
               [envelope |-> 402330, no_limit |-> TRUE] },
      f \in Fundings }

\* other fee rates, and a wallet too small for the batch
RateConfigs ==
  { [batch |-> BatchOf(mode, n, MatchingDestinations(mode, n), "p2tr", parent,
                       TARGET_POSTAGE, 25, FALSE, None, FALSE, commitment, 0,
                       None, FALSE, FALSE, rate),
     env   |-> EnvOf({}, parent, big)] :
      mode \in Modes, n \in 1..MaxInscriptions, parent \in BOOLEAN,
      commitment \in {None, Some(50000)}, rate \in FeeRates \cup {0, 1001},
      big \in BOOLEAN }

\* --next-file without --commitment
NextFileConfigs ==
  { [batch |-> BatchOf(mode, 1, nd, "p2tr", FALSE, TARGET_POSTAGE, 25, FALSE,
                       None, FALSE, None, 0, None, FALSE, TRUE, 1000),
     env   |-> EnvOf({}, FALSE, TRUE)] :
      mode \in Modes, nd \in 1..MaxDestinations }

\* wallets with locked, rune-bearing, inscribed and empty utxos
CardinalConfigs ==
  { [batch |-> BatchOf("SharedOutput", 1, 1, "p2tr", FALSE, TARGET_POSTAGE, 25,
                       FALSE, None, FALSE, None, 0, None, FALSE, FALSE, 1000),
     env   |-> [EnvOf(inscribed, FALSE, big) EXCEPT
                  !.locked_utxos = locked,
                  !.runic_utxos = runic,
                  !.utxos = IF empty THEN [@ EXCEPT ![OutPoint(1, 0)] = 0]
                            ELSE @]] :
      inscribed \in {{}, {ParentLocation},
                     {ParentLocation, SatPoint(OutPoint(2, 0), 0)}},
      locked \in SUBSET {OutPoint(1, 0), OutPoint(2, 0)},
      runic \in SUBSET {OutPoint(2, 0), OutPoint(3, 0)},
      empty \in BOOLEAN, big \in BOOLEAN }

\* a supplied commitment revealed with --reveal-fee 0, at a fee rate of zero
\* (where the estimate is zero too) and at 1 sat/vB
ZeroFeeConfigs ==
  { [batch |-> BatchOf(mode, n, MatchingDestinations(mode, n), "p2tr", parent,
                       TARGET_POSTAGE, 25, FALSE, None, FALSE, Some(v), nri,
                       Some(0), FALSE, FALSE, rate),
     env   |-> EnvOf({}, parent, TRUE)] :
      mode \in Modes, n \in 1..MaxInscriptions, parent \in BOOLEAN,
      v \in CommitmentValues, nri \in 0..MaxRevealInputs, rate \in {0, 1000} }

\* the extra reveal inputs given in every order
RevealInputOrders ==
  UNION { {s \in [1..n -> {ExtraInput(k) : k \in 1..MaxRevealInputs}] :
             \A i, j \in 1..n : i # j => s[i] # s[j]} :
          n \in 0..MaxRevealInputs }

\* a supplied commitment revealed with the extra inputs in every order
RevealInputConfigs ==
  { [batch |-> [BatchOf(mode, n, MatchingDestinations(mode, n), "p2tr", parent,
                        TARGET_POSTAGE, 25, FALSE, None, FALSE, Some(50000), 0,
                        None, FALSE, FALSE, 1000)
                  EXCEPT !.reveal_input = given],
     env   |-> EnvOf({}, parent, TRUE)] :
      mode \in Modes, n \in 1..MaxInscriptions, parent \in BOOLEAN,
      given \in RevealInputOrders }

\* the flags that steer Batch::inscribe after the construction
ReportFlags ==
  { [dry_run |-> d, dump |-> u, no_broadcast |-> nb, no_backup |-> k] :
      d \in BOOLEAN, u \in BOOLEAN, nb \in BOOLEAN, k \in BOOLEAN }

\* well-formed batches under every combination of these flags; no_backup is
\* forced by a commitment and by commit_only
ReportConfigs ==
  { [batch |-> [BatchOf(mode, n, MatchingDestinations(mode, n), "p2tr", parent,
                        TARGET_POSTAGE, 25, FALSE, None, FALSE, f.commitment,
                        f.nri, None, f.commit_only, FALSE, 1000)
                  EXCEPT !.dry_run = fl.dry_run, !.dump = fl.dump,
                         !.no_broadcast = fl.no_broadcast,
                         !.no_backup = fl.no_backup \/ IsSome(f.commitment)
                                         \/ f.commit_only],
     env   |-> EnvOf({}, parent, TRUE)] :
      mode \in Modes, n \in 1..MaxInscriptions, parent \in BOOLEAN,
      f \in {g \in Fundings : ~g.next /\ ~g.reinscribe}, fl \in ReportFlags }

\* a fresh commit transaction under a recovery key that the caller supplied
KeyConfigs ==
  { [batch |-> [BatchOf("SharedOutput", 1, 1, "p2tr", parent, TARGET_POSTAGE,
                        25, FALSE, None, FALSE, None, 0, None, co, FALSE, 1000)
                  EXCEPT !.key = Some("wif"), !.no_backup = k \/ co,
                         !.no_broadcast = nb],
     env   |-> EnvOf({}, parent, TRUE)] :
      parent \in BOOLEAN, co \in BOOLEAN, k \in BOOLEAN, nb \in BOOLEAN }

\* the argument change of Batch::inscribe
ChangeArguments == {None, Some(Script("p2tr", "change1"))}

Configs ==
  PolicyConfigs \cup FundingConfigs \cup RateConfigs \cup NextFileConfigs
    \cup CardinalConfigs \cup ReportConfigs \cup ZeroFeeConfigs
    \cup RevealInputConfigs \cup KeyConfigs

\* no call of Batchfile::inscriptions
BatchfileIdle ==
  /\ bf_call = None
  /\ bf_pc = "idle"
  /\ bf_pointer = 0
  /\ bf_inscriptions = << >>
  /\ bf_destinations = << >>
  /\ bf_calls = << >>
  /\ bf_result = [status |-> "idle", error |-> Error("none")]

\* Batch::inscribe is entered
Entered ==
  /\ ipc = "get_inscriptions"
  /\ calls = << >>
  /\ builder_calls = << >>
  /\ imported = FALSE
  /\ broadcast = << >>
  /\ signed_commit_tx = None
  /\ signed_reveal_tx = None
  /\ commit_result = None
  /\ reveal_result = None
  /\ report = None
  /\ returned = [status |-> "running", error |-> Error("none")]
  /\ pc = "validate"
  /\ result = [status |-> "running", error |-> Error("none")]
  /\ satpoint = None
  /\ reinscription = FALSE
  /\ key_pair = None
  /\ reveal_script = None
  /\ total_postage = 0
  /\ reveal_inputs = << >>
  /\ reveal_outputs = << >>
  /\ reveal_fee = 0
  /\ unsigned_commit_tx = None
  /\ utxos = env.utxos
  /\ reveal_tx = None
  /\ prevouts = << >>
  /\ total_fees = 0

Init ==
  /\ \E c \in Configs, ch \in ChangeArguments :
       /\ batch = c.batch /\ env = c.env /\ change_arg = ch
       /\ IsSome(ch) => c \in ReportConfigs
  /\ Entered
  /\ BatchfileIdle

---------------------------------------------------------------------------
(* The stages *)

Fail(status, err) ==
  /\ pc' = "done"
  /\ result' = [status |-> status, error |-> err]

\* a stage of the construction, within Batch::inscribe's call of it
Constructing(made) ==
  /\ ipc = "construct"
  /\ calls' = calls \o made
  /\ UNCHANGED <<outer, builder_calls>>

\* the stage that may call TransactionBuilder, within Batch::inscribe's call
Funding(invoked) ==
  /\ ipc = "construct"
  /\ builder_calls' = builder_calls \o invoked
  /\ UNCHANGED <<outer, calls>>

ModeCheckMessage(b) ==
  IF b.mode = "SameSat"
    THEN "invariant: same-sat has only one destination"
    ELSE "invariant: destination addresses and number of inscriptions doesn't match"

\* Validate with the key pair generated before the checks
Validate_KeyFirst ==
  /\ pc = "validate"
  /\ Constructing(<< >>)
  /\ key_pair' = Some("generated")
  /\ UNCHANGED <<batch, env, reveal_script, total_postage,
                 reveal_inputs, reveal_outputs, reveal_fee, unsigned_commit_tx,
                 utxos, reveal_tx, prevouts, total_fees>>
  /\ IF ~ParentsMatch(batch)
       THEN /\ Fail("panic", Error("assertion failed"))
            /\ UNCHANGED <<satpoint, reinscription>>
     ELSE IF IsSome(batch.next_inscription) /\ IsNone(batch.commitment)
       THEN /\ Fail("err", Error("--next-file doesn't work without --commitment"))
            /\ UNCHANGED <<satpoint, reinscription>>
     ELSE IF ~ModeCheck(batch)
       THEN /\ Fail("panic", Error(ModeCheckMessage(batch)))
            /\ UNCHANGED <<satpoint, reinscription>>
     ELSE LET sel == SelectSatpoint(batch, env) IN
       IF ~sel.ok
         THEN /\ Fail("err", sel.error)
              /\ UNCHANGED <<satpoint, reinscription>>
       ELSE LET r == CheckReinscription(batch, env, sel.value) IN
         /\ satpoint' = Some(sel.value)
         /\ reinscription' = r.reinscription
         /\ IF IsSome(r.error)
              THEN Fail("err", Unwrap(r.error))
              ELSE pc' = "commit" /\ UNCHANGED result

\* the checks on the configuration and on the satpoint
Validate ==
  /\ pc = "validate"
  /\ Constructing(<< >>)
  /\ UNCHANGED <<batch, env, key_pair, reveal_script, total_postage,
                 reveal_inputs, reveal_outputs, reveal_fee, unsigned_commit_tx,
                 utxos, reveal_tx, prevouts, total_fees>>
  /\ IF ~ParentsMatch(batch)
       THEN /\ Fail("panic", Error("assertion failed"))
            /\ UNCHANGED <<satpoint, reinscription>>
     ELSE IF IsSome(batch.next_inscription) /\ IsNone(batch.commitment)
       THEN /\ Fail("err", Error("--next-file doesn't work without --commitment"))
            /\ UNCHANGED <<satpoint, reinscription>>
     ELSE IF ~ModeCheck(batch)
       THEN /\ Fail("panic", Error(ModeCheckMessage(batch)))
            /\ UNCHANGED <<satpoint, reinscription>>
     ELSE LET sel == SelectSatpoint(batch, env) IN
       IF ~sel.ok
         THEN /\ Fail("err", sel.error)
              /\ UNCHANGED <<satpoint, reinscription>>
       ELSE LET r == CheckReinscription(batch, env, sel.value) IN
         /\ satpoint' = Some(sel.value)
         /\ reinscription' = r.reinscription
         /\ IF IsSome(r.error)
              THEN Fail("err", Unwrap(r.error))
              ELSE pc' = "commit" /\ UNCHANGED result

\* the key pair, the reveal script and the taproot commitment
Commit ==
  /\ pc = "commit"
  /\ Constructing(<< >>)
  /\ key_pair' = Some(IF IsSome(batch.key) THEN "from_wif" ELSE "generated")
  /\ reveal_script' =
       Some(append_batch_reveal_script(batch.inscriptions, RevealScriptPrefixLen))
  /\ pc' = "assemble"
  /\ UNCHANGED <<batch, env, result, satpoint, reinscription, total_postage,
                 reveal_inputs, reveal_outputs, reveal_fee, unsigned_commit_tx,
                 utxos, reveal_tx, prevouts, total_fees>>

\* the reveal inputs and outputs, and the reveal fee
Assemble ==
  /\ pc = "assemble"
  /\ Constructing(<< >>)
  /\ total_postage' = TotalPostage(batch)
  /\ reveal_inputs' = InitialRevealInputs(batch)
  /\ reveal_outputs' = InitialRevealOutputs(batch, env)
  /\ LET estimate == build_reveal_transaction(batch.reveal_fee_rate,
                       InitialRevealInputs(batch), CommitInput(batch),
                       InitialRevealOutputs(batch, env), Unwrap(reveal_script)).fee
         fee == EffectiveRevealFee(batch, estimate)
     IN IF fee.ok
          THEN reveal_fee' = fee.value /\ pc' = "fund" /\ UNCHANGED result
          ELSE reveal_fee' = estimate /\ Fail("err", fee.error)
  /\ UNCHANGED <<batch, env, satpoint, reinscription, key_pair, reveal_script,
                 unsigned_commit_tx, utxos, reveal_tx, prevouts, total_fees>>

\* FundingTarget without the postage
FundingTarget_FeeOnly(b, fee, postage) ==
  IF b.commit_only THEN Target("NoChange", fee) ELSE Target("Value", fee)

FundingTarget(b, fee, postage) ==
  IF b.commit_only THEN Target("NoChange", fee + postage)
  ELSE Target("Value", fee + postage)

\* the arguments of TransactionBuilder::new
BuilderArguments(b, e, sp, map, fee, postage) ==
  [satpoint    |-> sp,
   amounts     |-> map,
   recipient   |-> CommitTxAddress,
   change      |-> e.change,
   fee_rate    |-> b.commit_fee_rate,
   target      |-> FundingTarget(b, fee, postage),
   force_input |-> e.force_input]

\* the commit transaction: a placeholder, or the coin selection's
Fund ==
  /\ pc = "fund"
  /\ Funding(IF IsSome(batch.commitment) THEN << >>
             ELSE <<BuilderArguments(batch, env, Unwrap(satpoint), utxos,
                                     reveal_fee, total_postage)>>)
  /\ IF IsSome(batch.commitment)
       THEN /\ unsigned_commit_tx' = Some(Transaction(0, << >>, << >>))
            /\ pc' = "resolve"
            /\ UNCHANGED result
       ELSE LET built == build_transaction(Unwrap(satpoint),
                           env.wallet_inscriptions, utxos, env.locked_utxos,
                           env.runic_utxos, CommitTxAddress, env.change,
                           batch.commit_fee_rate,
                           FundingTarget(batch, reveal_fee, total_postage),
                           env.force_input)
            IN IF built.ok
                 THEN /\ unsigned_commit_tx' = Some(built.value)
                      /\ pc' = "resolve"
                      /\ UNCHANGED result
                 ELSE /\ unsigned_commit_tx' = None
                      /\ Fail("err", built.error)
  /\ UNCHANGED <<batch, env, satpoint, reinscription, key_pair, reveal_script,
                 total_postage, reveal_inputs, reveal_outputs, reveal_fee,
                 utxos, reveal_tx, prevouts, total_fees>>

\* a call of the index or of the RPC client, and whether it succeeded
Call(to, method, ok) == [to |-> to, method |-> method, ok |-> ok]

\* index.get_transaction, once per extra reveal input
GetTransactionCalls(b) ==
  [i \in 1..Len(b.reveal_input) |-> Call("index", "get_transaction", TRUE)]

\* the outputs that the extra reveal inputs spend, looked up in the index
RevealInputPrevouts(b, e) ==
  [i \in 1..Len(b.reveal_input) |-> e.index[b.reveal_input[i]]]

\* ChangeValue that leaves the extra reveal inputs' value out
ChangeValue_CommitmentOnly(b, reveal_input_value, postage, fee) ==
  Unwrap(b.commitment_output).value - postage - fee

\* the change of a reveal that spends a supplied commitment
ChangeValue(b, reveal_input_value, postage, fee) ==
  reveal_input_value + Unwrap(b.commitment_output).value - postage - fee

\* SubtractionFails for an Amount whose subtraction never panics
SubtractionFails_Never(b, reveal_input_value, postage, fee) == FALSE

\* Amount's Sub panics when the result would be negative: the subtractions
\* of the change value, left to right
SubtractionFails(b, reveal_input_value, postage, fee) ==
  \/ reveal_input_value + Unwrap(b.commitment_output).value < postage
  \/ reveal_input_value + Unwrap(b.commitment_output).value - postage < fee

\* the commit outpoint is resolved, the reveal transaction built, dust refused
Resolve ==
  /\ pc = "resolve"
  /\ Constructing(GetTransactionCalls(batch))
  /\ UNCHANGED <<batch, env, satpoint, reinscription, key_pair, reveal_script,
                 total_postage, reveal_fee, unsigned_commit_tx, prevouts,
                 total_fees>>
  /\ IF \E i \in 1..Len(batch.reveal_input) :
          batch.reveal_input[i] \notin DOMAIN env.index
       THEN /\ Fail("panic", Error("called Option::unwrap() on a None value"))
            /\ UNCHANGED <<utxos, reveal_inputs, reveal_outputs, reveal_tx>>
     ELSE
       LET reveal_input_prevouts == RevealInputPrevouts(batch, env)
           reveal_input_value ==
             SumSeq([i \in 1..Len(reveal_input_prevouts) |->
                       reveal_input_prevouts[i].value])
           commit_input == CommitInput(batch)
           change == ChangeValue(batch, reveal_input_value, total_postage, reveal_fee)
           vout == FindCommitVout(Unwrap(unsigned_commit_tx))
       IN
       /\ utxos' = InsertAll(utxos, batch.reveal_input, reveal_input_prevouts)
       /\ IF IsSome(batch.commitment)
             /\ SubtractionFails(batch, reveal_input_value, total_postage,
                                 reveal_fee)
            THEN /\ Fail("panic", Error("Amount subtraction error"))
                 /\ UNCHANGED <<reveal_inputs, reveal_outputs, reveal_tx>>
          ELSE IF IsNone(batch.commitment) /\ IsNone(vout)
            THEN /\ Fail("panic", Error("should find sat commit/inscription output"))
                 /\ UNCHANGED <<reveal_inputs, reveal_outputs, reveal_tx>>
          ELSE
            LET ins == IF IsSome(batch.commitment)
                         THEN SetIndex(reveal_inputs, commit_input,
                                       Unwrap(batch.commitment))
                         ELSE SetIndex(reveal_inputs, commit_input,
                                OutPoint(txid(Unwrap(unsigned_commit_tx)),
                                         Unwrap(vout)))
                outs == IF IsSome(batch.commitment)
                          THEN WithChange(reveal_outputs, change)
                          ELSE reveal_outputs
                built == build_reveal_transaction(batch.reveal_fee_rate, ins,
                           commit_input, outs, Unwrap(reveal_script))
            IN /\ reveal_inputs' = ins
               /\ reveal_outputs' = outs
               /\ reveal_tx' = Some(built.tx)
               /\ IF DustCheck(built.tx, commit_input)
                    THEN pc' = "sign" /\ UNCHANGED result
                    ELSE Fail("err", Error("commit transaction output would be dust"))

\* the prevouts, the signature hash and the witness of the commit input
Sign ==
  /\ pc = "sign"
  /\ Constructing(<< >>)
  /\ LET commit_input == CommitInput(batch)
         tx == Unwrap(reveal_tx)
         vout == IF IsSome(batch.commitment) THEN 0
                 ELSE tx.input[commit_input + 1].previous_output.vout
         all == Prevouts(batch, Unwrap(unsigned_commit_tx), vout,
                         RevealInputPrevouts(batch, env))
     IN /\ prevouts' = all
        /\ IF Len(all) # Len(tx.input)
             THEN /\ Fail("panic", Error("signature hash should compute"))
                  /\ UNCHANGED reveal_tx
             ELSE /\ reveal_tx' = Some(SignWitness(tx, commit_input,
                                                   Unwrap(reveal_script)))
                  /\ pc' = "account"
                  /\ UNCHANGED result
  /\ UNCHANGED <<batch, env, satpoint, reinscription, key_pair, reveal_script,
                 total_postage, reveal_inputs, reveal_outputs, reveal_fee,
                 unsigned_commit_tx, utxos, total_fees>>

\* the weight limit, the commit output registered, the fees
Account ==
  /\ pc = "account"
  /\ Constructing(<< >>)
  /\ LET commit_input == CommitInput(batch)
         tx == Unwrap(reveal_tx)
         commit_tx == Unwrap(unsigned_commit_tx)
         reveal_weight == weight(tx)
         registered == MapInsert(utxos, tx.input[commit_input + 1].previous_output,
                         CommitOutputValue(batch, commit_tx, tx, commit_input))
         fees == TotalFees(batch, commit_tx, tx, registered)
     IN IF ~WeightCheck(batch, reveal_weight)
          THEN /\ Fail("err", [kind |-> "reveal transaction weight greater than MAX_STANDARD_TX_WEIGHT",
                               weight |-> reveal_weight])
               /\ UNCHANGED <<utxos, total_fees>>
        ELSE IF IsNone(fees)
          THEN /\ Fail("panic", Error("called Option::unwrap() on a None value"))
               /\ utxos' = registered
               /\ UNCHANGED total_fees
        ELSE /\ utxos' = registered
             /\ total_fees' = Unwrap(fees)
             /\ pc' = "done"
             /\ result' = [status |-> "ok", error |-> Error("none")]
  /\ UNCHANGED <<batch, env, satpoint, reinscription, key_pair, reveal_script,
                 total_postage, reveal_inputs, reveal_outputs, reveal_fee,
                 unsigned_commit_tx, reveal_tx, prevouts>>

---------------------------------------------------------------------------
(* Batch::output *)

\* Batch::output that counts the inscriptions from 1
output_OneBasedIndex(b, commit_, reveal_, commit_hex, reveal_hex, recovery_descriptor, fees, inscriptions) ==
  LET vout(index) ==
        IF b.mode \in {"SharedOutput", "SameSat"}
          THEN (IF IsSome(b.parent_info) THEN 1 ELSE 0)
          ELSE (IF IsSome(b.parent_info) THEN index + 1 ELSE index)
      offset(index) ==
        IF b.mode = "SharedOutput" THEN index * b.postage ELSE 0
      info(index) ==
        [id       |-> [txid |-> Unwrap(reveal_), index |-> index + 1],
         location |-> SatPoint(OutPoint(Unwrap(reveal_), vout(index)),
                               offset(index))]
  IN [commit              |-> commit_,
      commit_hex          |-> commit_hex,
      reveal              |-> reveal_,
      reveal_hex          |-> reveal_hex,
      recovery_descriptor |-> recovery_descriptor,
      total_fees          |-> fees,
      parent              |-> IF IsSome(b.parent_info)
                                THEN Some(Unwrap(b.parent_info).id) ELSE None,
      inscriptions        |-> IF b.commit_only THEN << >>
                              ELSE [k \in 1..Len(inscriptions) |-> info(k - 1)]]

\* Batch::output with a postage between the inscriptions in every mode
output_OffsetInEveryMode(b, commit_, reveal_, commit_hex, reveal_hex, recovery_descriptor, fees, inscriptions) ==
  LET vout(index) ==
        IF b.mode \in {"SharedOutput", "SameSat"}
          THEN (IF IsSome(b.parent_info) THEN 1 ELSE 0)
          ELSE (IF IsSome(b.parent_info) THEN index + 1 ELSE index)
      offset(index) ==
        index * b.postage
      info(index) ==
        [id       |-> [txid |-> Unwrap(reveal_), index |-> index],
         location |-> SatPoint(OutPoint(Unwrap(reveal_), vout(index)),
                               offset(index))]
  IN [commit              |-> commit_,
      commit_hex          |-> commit_hex,
      reveal              |-> reveal_,
      reveal_hex          |-> reveal_hex,
      recovery_descriptor |-> recovery_descriptor,
      total_fees          |-> fees,
      parent              |-> IF IsSome(b.parent_info)
                                THEN Some(Unwrap(b.parent_info).id) ELSE None,
      inscriptions        |-> IF b.commit_only THEN << >>
                              ELSE [k \in 1..Len(inscriptions) |-> info(k - 1)]]

output(b, commit_, reveal_, commit_hex, reveal_hex, recovery_descriptor, fees, inscriptions) ==
  LET vout(index) ==
        IF b.mode \in {"SharedOutput", "SameSat"}
          THEN (IF IsSome(b.parent_info) THEN 1 ELSE 0)
          ELSE (IF IsSome(b.parent_info) THEN index + 1 ELSE index)
      offset(index) ==
        IF b.mode = "SharedOutput" THEN index * b.postage ELSE 0
      info(index) ==
        [id       |-> [txid |-> Unwrap(reveal_), index |-> index],
         location |-> SatPoint(OutPoint(Unwrap(reveal_), vout(index)),
                               offset(index))]
  IN [commit              |-> commit_,
      commit_hex          |-> commit_hex,
      reveal              |-> reveal_,
      reveal_hex          |-> reveal_hex,
      recovery_descriptor |-> recovery_descriptor,
      total_fees          |-> fees,
      parent              |-> IF IsSome(b.parent_info)
                                THEN Some(Unwrap(b.parent_info).id) ELSE None,
      inscriptions        |-> IF b.commit_only THEN << >>
                              ELSE [k \in 1..Len(inscriptions) |-> info(k - 1)]]

---------------------------------------------------------------------------
(* The steps of Batch::inscribe around the construction *)

Return(status, err) ==
  /\ ipc' = "returned"
  /\ returned' = [status |-> status, error |-> err]

\* what the steps of Batch::inscribe leave alone
inner == <<batch, env, pc, result, satpoint, reinscription, key_pair,
           reveal_script, total_postage, reveal_inputs, reveal_outputs,
           reveal_fee, unsigned_commit_tx, utxos, reveal_tx, prevouts,
           total_fees, change_arg, builder_calls, batchfile_vars>>

\* index.get_inscriptions(utxos)?
GetInscriptions ==
  /\ ipc = "get_inscriptions"
  /\ \E ok \in BOOLEAN :
       /\ calls' = Append(calls, Call("index", "get_inscriptions", ok))
       /\ IF ok THEN ipc' = "change_addresses" /\ UNCHANGED returned
          ELSE Return("err", Error("index error"))
  /\ UNCHANGED <<inner, imported, broadcast, signed_commit_tx,
                 signed_reveal_tx, commit_result, reveal_result, report>>

\* commit_tx_change: one change address from the wallet, and a second one
\* unless the caller gave one
GetChangeAddresses ==
  /\ ipc = "change_addresses"
  /\ LET wanted == IF IsSome(change_arg) THEN 1 ELSE 2 IN
     \E failing \in 0..wanted :
       /\ calls' = calls \o
            [i \in 1..(IF failing = 0 THEN wanted ELSE failing) |->
               Call("client", "getrawchangeaddress", i # failing)]
       /\ IF failing = 0 THEN ipc' = "construct" /\ UNCHANGED returned
          ELSE Return("err", Error("rpc error"))
  /\ UNCHANGED <<inner, imported, broadcast, signed_commit_tx,
                 signed_reveal_tx, commit_result, reveal_result, report>>

\* the ? on the result of create_batch_inscription_transactions
Propagate ==
  /\ ipc = "construct" /\ pc = "done" /\ result.status # "ok"
  /\ Return(result.status, result.error)
  /\ UNCHANGED <<inner, calls, imported, broadcast, signed_commit_tx,
                 signed_reveal_tx, commit_result, reveal_result, report>>

\* the test of self.dry_run, with the flag ignored
DryRunRequested_Never(b) == FALSE

\* the test of self.dry_run
DryRunRequested(b) == b.dry_run

\* if self.dry_run
DryRun ==
  /\ ipc = "construct" /\ pc = "done" /\ result.status = "ok"
  /\ DryRunRequested(batch)
  /\ report' = Some(output(batch,
       IF IsSome(batch.commitment) THEN None
       ELSE Some(txid(Unwrap(unsigned_commit_tx))),
       IF batch.commit_only THEN None ELSE Some(txid(Unwrap(reveal_tx))),
       None, None, None, total_fees, batch.inscriptions))
  /\ Return("ok", Error("none"))
  /\ UNCHANGED <<inner, calls, imported, broadcast, signed_commit_tx,
                 signed_reveal_tx, commit_result, reveal_result>>

\* a transaction with the wallet's signatures on its unsigned inputs
WalletSigned(tx) ==
  [tx EXCEPT !.input =
     [i \in 1..Len(tx.input) |->
        IF tx.input[i].witness = << >>
          THEN TxIn(tx.input[i].previous_output, <<SCHNORR_SIGNATURE_SIZE>>)
          ELSE tx.input[i]]]

\* the reveal transaction needs the wallet's signature
RevealNeedsWallet(b, commit_tx) ==
  \/ IsSome(b.parent_info)
  \/ Len(b.reveal_input) > 0

\* the wallet signs the commit transaction and, for a parent or extra
\* inputs, the reveal transaction
WalletSign ==
  /\ ipc = "construct" /\ pc = "done" /\ result.status = "ok"
  /\ ~DryRunRequested(batch)
  /\ LET commit_tx == Unwrap(unsigned_commit_tx)
         signs_commit == IsNone(batch.commitment)
         signs_reveal == RevealNeedsWallet(batch, commit_tx)
     IN \E failing \in {"none"} \cup (IF signs_commit THEN {"commit"} ELSE {})
                         \cup (IF signs_reveal THEN {"reveal"} ELSE {}) :
       /\ calls' = calls
            \o (IF signs_commit
                  THEN <<Call("client", "signrawtransactionwithwallet",
                              failing # "commit")>>
                  ELSE << >>)
            \o (IF failing = "commit" THEN << >>
                ELSE GetTransactionCalls(batch)
                     \o (IF signs_reveal
                           THEN <<Call("client", "signrawtransactionwithwallet",
                                       failing # "reveal")>>
                           ELSE << >>))
       /\ IF failing = "none"
            THEN /\ signed_commit_tx' = IF signs_commit
                                          THEN Some(WalletSigned(commit_tx))
                                          ELSE None
                 /\ signed_reveal_tx' = IF signs_reveal
                                          THEN Some(WalletSigned(Unwrap(reveal_tx)))
                                          ELSE Some(Unwrap(reveal_tx))
                 /\ ipc' = "backup"
                 /\ UNCHANGED returned
            ELSE /\ Return("err", Error("rpc error"))
                 /\ signed_commit_tx' = IF signs_commit /\ failing = "reveal"
                                          THEN Some(WalletSigned(commit_tx))
                                          ELSE None
                 /\ UNCHANGED signed_reveal_tx
  /\ UNCHANGED <<inner, imported, broadcast, commit_result, reveal_result, report>>

\* BackupWanted that never asks for the backup
BackupWanted_Never(b) == FALSE

\* the recovery key is to be backed up
BackupWanted(b) == ~b.no_backup /\ IsNone(b.key)

\* Batch::backup_recovery_key, unless no_backup or a key was given
Backup ==
  /\ ipc = "backup"
  /\ IF BackupWanted(batch)
       THEN \E outcome \in {"ok", "info fails", "import fails", "not imported"} :
              /\ calls' = calls
                   \o <<Call("client", "getdescriptorinfo", outcome # "info fails")>>
                   \o (IF outcome = "info fails" THEN << >>
                       ELSE <<Call("client", "importdescriptors",
                                   outcome # "import fails")>>)
              /\ imported' = (outcome = "ok")
              /\ IF outcome = "ok" THEN ipc' = "broadcast" /\ UNCHANGED returned
                 ELSE IF outcome = "not imported"
                   THEN Return("err", Error("commit tx recovery key import failed"))
                 ELSE Return("err", Error("rpc error"))
       ELSE /\ ipc' = "broadcast"
            /\ UNCHANGED <<calls, imported, returned>>
  /\ UNCHANGED <<inner, broadcast, signed_commit_tx, signed_reveal_tx,
                 commit_result, reveal_result, report>>

\* the error of a failed broadcast of the reveal transaction, with no word
\* of the commit transaction
RevealSendError_Bare(commit_) ==
  [kind |-> "Failed to send reveal transaction", commit_note |-> None]

\* the error of a failed broadcast of the reveal transaction
RevealSendError(commit_) ==
  [kind |-> "Failed to send reveal transaction",
   commit_note |->
     IF IsSome(commit_)
       THEN Some([commit |-> Unwrap(commit_),
                  text |-> "will be recovered once mined"])
       ELSE None]

\* RevealAttempted that goes on after a failure of the commit transaction
RevealAttempted_AfterFailure(b, failing) == ~b.commit_only

\* the reveal transaction is decoded or sent: not under commit_only, and
\* not once the ? on the commit transaction has returned
RevealAttempted(b, failing) == ~b.commit_only /\ failing # "commit"

\* the txids: decoded under no_broadcast, else returned by the broadcast
Broadcast ==
  /\ ipc = "broadcast"
  /\ LET method == IF batch.no_broadcast THEN "decoderawtransaction"
                   ELSE "sendrawtransaction"
         has_commit == IsNone(batch.commitment)
         has_reveal == ~batch.commit_only
         commit_txid == txid(Unwrap(unsigned_commit_tx))
         reveal_txid == txid(Unwrap(reveal_tx))
     IN \E failing \in {"none"} \cup (IF has_commit THEN {"commit"} ELSE {})
                         \cup (IF has_reveal THEN {"reveal"} ELSE {}) :
       /\ calls' = calls
            \o (IF has_commit
                  THEN <<Call("client", method, failing # "commit")>> ELSE << >>)
            \o (IF RevealAttempted(batch, failing)
                  THEN <<Call("client", method, failing # "reveal")>> ELSE << >>)
       /\ broadcast' =
            IF batch.no_broadcast THEN broadcast
            ELSE broadcast
                 \o (IF has_commit /\ failing # "commit"
                       THEN <<commit_txid>> ELSE << >>)
                 \o (IF has_reveal /\ failing = "none"
                       THEN <<reveal_txid>> ELSE << >>)
       /\ commit_result' = IF has_commit /\ failing # "commit"
                      THEN Some(commit_txid) ELSE None
       /\ reveal_result' = IF has_reveal /\ failing = "none"
                      THEN Some(reveal_txid) ELSE None
       /\ IF failing = "none" THEN ipc' = "report" /\ UNCHANGED returned
          ELSE IF failing = "reveal" /\ ~batch.no_broadcast
            THEN Return("err",
                   RevealSendError(IF has_commit THEN Some(commit_txid)
                                   ELSE None))
          ELSE Return("err", Error("rpc error"))
  /\ UNCHANGED <<inner, imported, signed_commit_tx, signed_reveal_tx, report>>

\* the Output, with the dumps and the recovery descriptor under dump
Report ==
  /\ ipc = "report"
  /\ IF batch.dump
       THEN \E ok \in BOOLEAN :
              /\ calls' = Append(calls, Call("client", "getdescriptorinfo", ok))
              /\ IF ok
                   THEN /\ report' = Some(output(batch, commit_result, reveal_result,
                               IF IsNone(batch.commitment)
                                 THEN Some(signed_commit_tx) ELSE None,
                               IF ~batch.commit_only
                                 THEN Some(Unwrap(signed_reveal_tx)) ELSE None,
                               Some("rawtr"), total_fees, batch.inscriptions))
                        /\ Return("ok", Error("none"))
                   ELSE /\ Return("err", Error("rpc error"))
                        /\ UNCHANGED report
       ELSE /\ report' = Some(output(batch, commit_result, reveal_result, None, None, None,
                                     total_fees, batch.inscriptions))
            /\ Return("ok", Error("none"))
            /\ UNCHANGED calls
  /\ UNCHANGED <<inner, imported, broadcast, signed_commit_tx,
                 signed_reveal_tx, commit_result, reveal_result>>

Next ==
  \/ GetInscriptions
  \/ GetChangeAddresses
  \/ Validate
  \/ Commit
  \/ Assemble
  \/ Fund
  \/ Resolve
  \/ Sign
  \/ Account
  \/ Propagate
  \/ DryRun
  \/ WalletSign
  \/ Backup
  \/ Broadcast
  \/ Report

Spec == Init /\ [][Next]_vars

---------------------------------------------------------------------------
(* Batchfile::inscriptions *)

\* the chain of the call, and the networks an address may be given for
TheChain == "mainnet"
Networks == {"mainnet", "testnet"}

\* the entries of a batchfile: with or without a destination; with a plain
\* file, a pointer, metadata of its own, or a file that cannot be read
BatchEntries ==
  { [destination |-> d, file_ok |-> shape # "unreadable",
     metadata    |-> IF shape = "metadata" THEN Some("yaml") ELSE None,
     pointer     |-> IF shape = "pointer" THEN Some(7) ELSE None] :
      d \in {None} \cup {Some([network |-> n,
                               script  |-> Script("p2tr", "recipient")]) :
                         n \in Networks},
      shape \in {"plain", "pointer", "metadata", "unreadable"} }

\* the calls that are explored
BatchfileCalls ==
  { [self         |-> [inscriptions |-> es, mode |-> mode,
                       parent |-> IF IsSome(pv) THEN Some("i1") ELSE None],
     parent_value |-> pv,
     metadata     |-> md,
     postage      |-> TARGET_POSTAGE] :
      es \in UNION {[1..n -> BatchEntries] : n \in 0..MaxInscriptions},
      mode \in Modes, pv \in {None, Some(10000)}, md \in {None, Some("cbor")} }

BatchfileInit ==
  /\ batch = BatchOf("SharedOutput", 1, 1, "p2tr", FALSE, TARGET_POSTAGE, 25,
                     FALSE, None, FALSE, None, 0, None, FALSE, FALSE, 1000)
  /\ env = EnvOf({}, FALSE, TRUE)
  /\ change_arg = None
  /\ Entered
  /\ \E c \in BatchfileCalls : bf_call = Some(c)
  /\ bf_pc = "check"
  /\ bf_pointer = 0
  /\ bf_inscriptions = << >>
  /\ bf_destinations = << >>
  /\ bf_calls = << >>
  /\ bf_result = [status |-> "running", error |-> Error("none")]

BatchfileReturn(status, err) ==
  /\ bf_pc' = "returned"
  /\ bf_result' = [status |-> status, error |-> err]

\* RejectsEntryDestinations that lets every batchfile pass
RejectsEntryDestinations_Never(f) == FALSE

\* an entry sets a destination and the mode is shared-output
RejectsEntryDestinations(f) ==
  /\ \E i \in 1..Len(f.inscriptions) : IsSome(f.inscriptions[i].destination)
  /\ f.mode = "SharedOutput"

\* the assertions and the check of the mode, before the loop
BatchfileChecks ==
  /\ bf_pc = "check"
  /\ LET c == Unwrap(bf_call)
         f == c.self
     IN IF f.inscriptions = << >>
          THEN /\ BatchfileReturn("panic", Error("assertion failed"))
               /\ UNCHANGED bf_pointer
        ELSE IF RejectsEntryDestinations(f)
          THEN /\ BatchfileReturn("err",
                    Error("individual inscription destinations cannot be set in shared-output mode"))
               /\ UNCHANGED bf_pointer
        ELSE IF /\ IsSome(c.metadata)
                /\ \E i \in 1..Len(f.inscriptions) :
                     IsSome(f.inscriptions[i].metadata)
          THEN /\ BatchfileReturn("panic", Error("assertion failed"))
               /\ UNCHANGED bf_pointer
        ELSE /\ bf_pc' = "from_file"
             /\ bf_pointer' = IF IsSome(c.parent_value)
                                THEN Unwrap(c.parent_value) ELSE 0
             /\ UNCHANGED bf_result
  /\ UNCHANGED <<bf_call, bf_inscriptions, bf_destinations, bf_calls, batch_vars>>

\* the pointer handed to Inscription::from_file for entry i (from 1)
EntryPointer(entry, i, pointer) ==
  IF IsSome(entry.pointer) THEN entry.pointer
  ELSE IF i = 1 THEN None ELSE Some(pointer)

\* the metadata handed to Inscription::from_file
EntryMetadata(c, entry) ==
  IF IsSome(c.metadata) THEN c.metadata ELSE entry.metadata

\* one turn of the loop: Inscription::from_file on the next entry, which
\* fails on a file that cannot be read
BatchfileFromFile ==
  /\ bf_pc = "from_file"
  /\ LET c == Unwrap(bf_call)
         f == c.self
         i == Len(bf_inscriptions) + 1
         entry == f.inscriptions[i]
     IN IF ~entry.file_ok
          THEN /\ BatchfileReturn("err", Error("io error"))
               /\ UNCHANGED <<bf_inscriptions, bf_pointer>>
          ELSE /\ bf_inscriptions' =
                    Append(bf_inscriptions,
                           [parent   |-> f.parent,
                            pointer  |-> EntryPointer(entry, i, bf_pointer),
                            metadata |-> EntryMetadata(c, entry)])
               /\ bf_pointer' = bf_pointer + c.postage
               /\ bf_pc' = IF i = Len(f.inscriptions) THEN "destinations"
                           ELSE "from_file"
               /\ UNCHANGED bf_result
  /\ UNCHANGED <<bf_call, bf_destinations, bf_calls, batch_vars>>

\* require_network on the address of an entry
RequireNetwork(address) == address.network = TheChain

\* the destinations: the wallet's change address, or one per entry, which
\* is the entry's own address or else a change address of the wallet; the
\* first failure ends the collection
BatchfileDestinations ==
  /\ bf_pc = "destinations"
  /\ LET f == Unwrap(bf_call).self
         n == Len(f.inscriptions)
         wallet == Script("p2tr", "change")
     IN IF f.mode \in {"SharedOutput", "SameSat"}
          THEN \E ok \in BOOLEAN :
                 /\ bf_calls' = Append(bf_calls,
                                       Call("client", "getrawchangeaddress", ok))
                 /\ IF ok
                      THEN /\ bf_destinations' = <<wallet>>
                           /\ BatchfileReturn("ok", Error("none"))
                      ELSE /\ UNCHANGED bf_destinations
                           /\ BatchfileReturn("err", Error("rpc error"))
          ELSE \E failing \in {0} \cup {i \in 1..n :
                                           IsNone(f.inscriptions[i].destination)} :
                 LET fails(i) ==
                       IF IsNone(f.inscriptions[i].destination) THEN i = failing
                       ELSE ~RequireNetwork(Unwrap(f.inscriptions[i].destination))
                     stops == {i \in 1..n : fails(i)}
                     last == IF stops = {} THEN n
                             ELSE CHOOSE i \in stops : \A j \in stops : i <= j
                     asked == SelectSeq([i \in 1..last |->
                                           [entry |-> f.inscriptions[i], at |-> i]],
                                        LAMBDA x : IsNone(x.entry.destination))
                 IN /\ bf_calls' = bf_calls \o
                         [k \in 1..Len(asked) |->
                            Call("client", "getrawchangeaddress",
                                 asked[k].at # failing)]
                    /\ IF stops = {}
                         THEN /\ bf_destinations' =
                                   [i \in 1..n |->
                                      IF IsNone(f.inscriptions[i].destination)
                                        THEN wallet
                                        ELSE Unwrap(f.inscriptions[i].destination).script]
                              /\ BatchfileReturn("ok", Error("none"))
                         ELSE /\ UNCHANGED bf_destinations
                              /\ BatchfileReturn("err",
                                   IF IsNone(f.inscriptions[last].destination)
                                     THEN Error("rpc error")
                                     ELSE Error("address is not valid on the network"))
  /\ UNCHANGED <<bf_call, bf_inscriptions, bf_pointer, batch_vars>>

BatchfileNext ==
  \/ BatchfileChecks
  \/ BatchfileFromFile
  \/ BatchfileDestinations

BatchfileSpec == BatchfileInit /\ [][BatchfileNext]_vars

---------------------------------------------------------------------------
(* What the claims speak of *)

Done == pc = "done"
Succeeded == pc = "done" /\ result.status = "ok"

\* no transaction is returned
NoTransactions == ~Succeeded

HasParent == IsSome(batch.parent_info)
HasCommitment == IsSome(batch.commitment)
NumInscriptions == Len(batch.inscriptions)
NumDestinations == Len(batch.destinations)

\* the destination count matches the mode
DestinationsMatch ==
  \/ batch.mode \in {"SameSat", "SharedOutput"} /\ NumDestinations = 1
  \/ batch.mode = "SeparateOutputs" /\ NumDestinations = NumInscriptions

ModeCheckMessages ==
  {"invariant: same-sat has only one destination",
   "invariant: destination addresses and number of inscriptions doesn't match"}

\* errors raised before the match on the mode
BeforeModeCheck ==
  {"assertion failed", "--next-file doesn't work without --commitment"}

\* the call has left the match on the mode behind
PastModeCheck ==
  \/ pc \notin {"validate", "done"}
  \/ pc = "done" /\ result.error.kind \notin BeforeModeCheck \cup ModeCheckMessages

\* the call reached the match on the mode
ReachedModeCheck == pc # "validate" /\ result.error.kind \notin BeforeModeCheck

\* the returned transactions
TheReveal == Unwrap(reveal_tx)
TheCommit == Unwrap(unsigned_commit_tx)

\* where the destination outputs start, and how many outputs follow them
ParentOutputs == IF HasParent THEN 1 ELSE 0
ChangeOutputs == IF HasCommitment THEN 1 ELSE 0

ParentPassThrough ==
  HasParent =>
    /\ TheReveal.output[1].value = Unwrap(batch.parent_info).tx_out.value
    /\ TheReveal.output[1].script_pubkey = Unwrap(batch.parent_info).destination

(* C1: the call gets past its mode check only if the destination count     *)
(* matches the mode (one destination for SameSat and SharedOutput, one per *)
(* inscription for SeparateOutputs); with any other count a call that      *)
(* reaches the check aborts there by assertion failure, and no call        *)
(* returns transactions.                                                   *)
C1_ModeCheckGate ==
  /\ PastModeCheck => DestinationsMatch
  /\ (Done /\ ~DestinationsMatch) =>
       /\ NoTransactions
       /\ unsigned_commit_tx = None /\ reveal_tx = None
       /\ ReachedModeCheck =>
            result.status = "panic" /\ result.error.kind \in ModeCheckMessages

C1_Witness ==
  /\ Done /\ result.status = "panic"
  /\ batch.mode = "SeparateOutputs" /\ NumDestinations # NumInscriptions
  /\ result.error.kind \in ModeCheckMessages

SpentValue(tx) ==
  SumSeq([i \in 1..Len(tx.input) |-> utxos[tx.input[i].previous_output]])
PaidValue(tx) == SumSeq([i \in 1..Len(tx.output) |-> tx.output[i].value])

(* C4: the total_fees returned are the commit transaction's inputs less    *)
(* its outputs (0 with a supplied commitment) plus the reveal              *)
(* transaction's inputs less its outputs (0 with commit_only), the inputs  *)
(* valued by the utxo map in which the commit output is registered.        *)
C4_TotalFees ==
  Succeeded =>
    /\ TheReveal.input[CommitInput(batch) + 1].previous_output \in DOMAIN utxos
    /\ total_fees =
         (IF HasCommitment THEN 0 ELSE SpentValue(TheCommit) - PaidValue(TheCommit))
         + (IF batch.commit_only THEN 0
            ELSE SpentValue(TheReveal) - PaidValue(TheReveal))

C4_Witness ==
  /\ Succeeded /\ ~HasCommitment /\ ~batch.commit_only /\ HasParent
  /\ SpentValue(TheCommit) > PaidValue(TheCommit)
  /\ SpentValue(TheReveal) > PaidValue(TheReveal)
  /\ total_fees > 0

\* the commit output that the reveal transaction spends
CommitOutputOfReveal ==
  TheCommit.output[TheReveal.input[CommitInput(batch) + 1].previous_output.vout + 1]

\* the single funding utxo's value
FundingValue == utxos[TheCommit.input[1].previous_output]

\* an inscription fresh from the wallet: one inscription to a shared output,
\* no parent, a commit transaction funded by a single utxo
SingleFreshInscription ==
  /\ Succeeded /\ batch.mode = "SharedOutput" /\ NumInscriptions = 1
  /\ ~HasParent /\ ~HasCommitment
  /\ Len(TheCommit.input) = 1

RevealOutputEquation ==
  TheReveal.output[1].value =
    FundingValue
    - FeeRateFee(batch.reveal_fee_rate, vsize(TheReveal))
    - (FundingValue - CommitOutputOfReveal.value)

SatpointChecked == pc # "validate" /\ IsSome(satpoint)
Target_ == Unwrap(satpoint)
TargetInscribed == Target_ \in DOMAIN env.wallet_inscriptions

\* the wallet's inscriptions on the target's outpoint at another offset
OthersOnOutpoint ==
  {k \in DOMAIN env.wallet_inscriptions :
     k.outpoint = Target_.outpoint /\ k.offset # Target_.offset}

\* the validation let the call through
ValidationPassed ==
  \/ pc \notin {"validate", "done"}
  \/ pc = "done" /\ result.error.kind \notin
       {"sat already inscribed", "utxo already inscribed", "not a reinscription"}

ReinscribePasses ==
  (SatpointChecked /\ TargetInscribed /\ batch.reinscribe /\ OthersOnOutpoint = {})
    => ValidationPassed /\ reinscription

(* C6, as claimed: when the chosen satpoint is a key of the wallet's       *)
(* inscription map and reinscribe is unset, the call fails with an error   *)
(* that names the conflicting inscription; with reinscribe set and no      *)
(* other inscription on the outpoint, the call passes this check.          *)
C6_Original ==
  /\ (SatpointChecked /\ TargetInscribed /\ ~batch.reinscribe) =>
       /\ Done /\ result.status = "err"
       /\ "inscription_id" \in DOMAIN result.error
       /\ result.error.inscription_id = env.wallet_inscriptions[Target_]
  /\ ReinscribePasses

(* C6, amended: the error names the satpoint ("sat at <satpoint> already   *)
(* inscribed"), not the inscription; when another inscription of the       *)
(* wallet sits at a lower offset of the same outpoint, the error is that   *)
(* the utxo is already inscribed and names that other inscription.         *)
C6_AlreadyInscribed ==
  /\ (SatpointChecked /\ TargetInscribed /\ ~batch.reinscribe) =>
       /\ Done /\ result.status = "err"
       /\ unsigned_commit_tx = None /\ reveal_tx = None
       /\ IF \E k \in OthersOnOutpoint : k.offset < Target_.offset
            THEN /\ result.error.kind = "utxo already inscribed"
                 /\ result.error.inscribed_satpoint \in OthersOnOutpoint
                 /\ result.error.inscription_id =
                      env.wallet_inscriptions[result.error.inscribed_satpoint]
            ELSE /\ result.error.kind = "sat already inscribed"
                 /\ result.error.satpoint = Target_
                 /\ "inscription_id" \notin DOMAIN result.error
  /\ ReinscribePasses

C6_Witness ==
  /\ SatpointChecked /\ TargetInscribed /\ ~batch.reinscribe
  /\ Done /\ result.error.kind = "sat already inscribed"

(* C7: whenever the wallet holds an inscription on the target's outpoint   *)
(* at another offset, the call fails with an error, whatever reinscribe    *)
(* says and whether or not the target satpoint itself is inscribed.        *)
C7_OtherOffsetRefused ==
  (SatpointChecked /\ OthersOnOutpoint # {}) =>
    /\ Done /\ result.status = "err"
    /\ result.error.kind \in {"utxo already inscribed", "sat already inscribed"}
    /\ (batch.reinscribe \/ ~TargetInscribed)
         => result.error.kind = "utxo already inscribed"
    /\ unsigned_commit_tx = None /\ reveal_tx = None

C7_Witness ==
  /\ SatpointChecked /\ OthersOnOutpoint # {} /\ batch.reinscribe /\ TargetInscribed
  /\ Done /\ result.error.kind = "utxo already inscribed"

(* C8: with reinscribe set and a target satpoint that is no key of the     *)
(* wallet's inscription map, the call returns an error and no              *)
(* transaction; every call with a supplied commitment is such a call, its  *)
(* target being the placeholder satpoint.                                  *)
C8_NotAReinscription ==
  /\ (pc # "validate" /\ batch.reinscribe
        /\ (IsNone(satpoint) \/ ~TargetInscribed)) =>
       /\ Done /\ result.status # "ok"
       /\ unsigned_commit_tx = None /\ reveal_tx = None
       /\ IsSome(satpoint) => result.status = "err"
  /\ (pc # "validate" /\ batch.reinscribe /\ HasCommitment) =>
       /\ Done /\ result.status # "ok"
       /\ IsSome(satpoint) =>
            /\ Target_ = SatPoint(OutPoint(0, 0), 0)
            /\ ~TargetInscribed
            /\ result.error.kind = "not a reinscription"

C8_Witness ==
  /\ Done /\ batch.reinscribe /\ HasCommitment /\ IsSome(satpoint)
  /\ result.status = "err" /\ result.error.kind = "not a reinscription"

\* the reveal transaction has been signed: the weight check was reached
Signed ==
  /\ IsSome(reveal_tx)
  /\ TheReveal.input[CommitInput(batch) + 1].witness # << >>

WeightError == "reveal transaction weight greater than MAX_STANDARD_TX_WEIGHT"

(* C9: a reveal transaction returned with no_limit unset weighs at most    *)
(* MAX_STANDARD_TX_WEIGHT; a signed reveal transaction over the limit is   *)
(* refused with an error that reports its weight; with no_limit set the    *)
(* weight refuses nothing and the batch is constructed.                    *)
C9_WeightLimit ==
  /\ (Succeeded /\ ~batch.no_limit) => weight(TheReveal) <= MAX_STANDARD_TX_WEIGHT
  /\ (Done /\ Signed /\ ~batch.no_limit
        /\ weight(TheReveal) > MAX_STANDARD_TX_WEIGHT) =>
       /\ result.status = "err"
       /\ result.error.kind = WeightError
       /\ result.error.weight = weight(TheReveal)
  /\ (Done /\ Signed /\ batch.no_limit) => result.status = "ok"
  /\ (Done /\ result.error.kind = WeightError) =>
       ~batch.no_limit /\ Signed /\ weight(TheReveal) > MAX_STANDARD_TX_WEIGHT

C9_Witness ==
  /\ Done /\ Signed /\ ~batch.no_limit
  /\ result.error.kind = WeightError
  /\ result.error.weight > MAX_STANDARD_TX_WEIGHT

\* a batch over the limit that no_limit lets through
C9_NoLimitReached ==
  Succeeded /\ batch.no_limit /\ weight(TheReveal) > MAX_STANDARD_TX_WEIGHT

\* the reveal output at the commit input's index
OutputAtCommitInput == TheReveal.output[CommitInput(batch) + 1]

(* C10: in a returned reveal transaction the output at the commit input's  *)
(* index (0, or 1 with a parent) is worth at least the dust threshold of   *)
(* its script; a reveal transaction built with less there is refused with  *)
(* the dust error.                                                         *)
C10_NoDustOutput ==
  /\ Succeeded =>
       /\ CommitInput(batch) = ParentOutputs
       /\ OutputAtCommitInput.value >= dust_value(OutputAtCommitInput.script_pubkey)
  /\ (Done /\ IsSome(reveal_tx)
        /\ OutputAtCommitInput.value < dust_value(OutputAtCommitInput.script_pubkey)) =>
       /\ result.status = "err"
       /\ result.error.kind = "commit transaction output would be dust"

C10_Witness ==
  /\ Done /\ IsSome(reveal_tx) /\ HasParent
  /\ OutputAtCommitInput.value < dust_value(OutputAtCommitInput.script_pubkey)
  /\ result.error.kind = "commit transaction output would be dust"

\* the reveal script has been built and the reveal fee estimated
Assembled == pc \notin {"validate", "commit", "assemble"} /\ IsSome(reveal_script)

\* the estimated minimum of the reveal fee
EstimatedMinimum ==
  build_reveal_transaction(batch.reveal_fee_rate, InitialRevealInputs(batch),
                           CommitInput(batch), InitialRevealOutputs(batch, env),
                           Unwrap(reveal_script)).fee

RequestedFee == Unwrap(batch.reveal_fee)
LargerFee == IF RequestedFee > EstimatedMinimum THEN RequestedFee
             ELSE EstimatedMinimum

\* the value that the extra reveal inputs bring
ExtraInputValue ==
  SumSeq([i \in 1..Len(batch.reveal_input) |-> env.index[batch.reveal_input[i]].value])

(* C11: with an explicit reveal fee r and an estimated minimum m, r < m    *)
(* ends the call in a fee error with no transaction built; otherwise the   *)
(* fee used for the funding target and for the change is max(r, m).       *)
C11_ExplicitRevealFee ==
  (Assembled /\ IsSome(batch.reveal_fee)) =>
    IF RequestedFee < EstimatedMinimum
      THEN /\ Done /\ result.status = "err"
           /\ result.error.kind = "requested reveal_fee is too small"
           /\ result.error.at_least = EstimatedMinimum
           /\ unsigned_commit_tx = None /\ reveal_tx = None
      ELSE /\ reveal_fee = LargerFee
           /\ result.error.kind # "requested reveal_fee is too small"
           /\ (Succeeded /\ ~HasCommitment /\ ~batch.commit_only) =>
                CommitOutputOfReveal.value = LargerFee + total_postage
           /\ (Succeeded /\ HasCommitment) =>
                TheReveal.output[Len(TheReveal.output)].value =
                  ExtraInputValue + Unwrap(batch.commitment_output).value
                    - total_postage - LargerFee

C11_Witness ==
  /\ Succeeded /\ IsSome(batch.reveal_fee) /\ ~HasCommitment
  /\ RequestedFee > EstimatedMinimum /\ EstimatedMinimum > 0
  /\ reveal_fee = RequestedFee

\* the requested fee is refused
C11_TooSmallReached ==
  /\ Done /\ IsSome(batch.reveal_fee) /\ Assembled
  /\ RequestedFee < EstimatedMinimum
  /\ result.error.kind = "requested reveal_fee is too small"

\* the utxos that may be chosen: not empty, not inscribed, locked or runic
Eligible ==
  {o \in DOMAIN env.utxos :
     /\ env.utxos[o] > 0
     /\ \A k \in DOMAIN env.wallet_inscriptions : k.outpoint # o
     /\ o \notin env.locked_utxos
     /\ o \notin env.runic_utxos}

(* C12: a call without a satpoint and without a commitment targets offset  *)
(* 0 of a utxo of value > 0 that is not inscribed, locked or rune-bearing; *)
(* when the wallet has none, it fails with 'wallet contains no cardinal    *)
(* utxos'.                                                                 *)
C12_CardinalSelection ==
  (PastModeCheck /\ IsNone(batch.satpoint) /\ ~HasCommitment) =>
    IF Eligible # {}
      THEN /\ IsSome(satpoint)
           /\ Unwrap(satpoint).offset = 0
           /\ Unwrap(satpoint).outpoint \in Eligible
           /\ result.error.kind # "wallet contains no cardinal utxos"
      ELSE /\ Done /\ result.status = "err"
           /\ result.error.kind = "wallet contains no cardinal utxos"
           /\ satpoint = None
           /\ unsigned_commit_tx = None /\ reveal_tx = None

C12_Witness ==
  /\ PastModeCheck /\ IsNone(batch.satpoint) /\ ~HasCommitment
  /\ env.locked_utxos # {} /\ env.runic_utxos # {}
  /\ IsSome(satpoint) /\ Unwrap(satpoint).outpoint = OutPoint(3, 0)

\* a wallet whose utxos are all inscribed, locked, rune-bearing or empty
C12_NoCardinalReached ==
  /\ Done /\ IsNone(batch.satpoint) /\ ~HasCommitment /\ Eligible = {}
  /\ DOMAIN env.utxos # {}
  /\ result.error.kind = "wallet contains no cardinal utxos"

(* C13: a batch whose destination count does not match its mode never has  *)
(* a key pair, a reveal script, reveal inputs or outputs, a commit          *)
(* transaction or a reveal transaction: it is rejected before any of them   *)
(* is made.                                                                 *)
C13_MismatchRejectedFirst ==
  ~DestinationsMatch =>
    /\ key_pair = None
    /\ reveal_script = None
    /\ reveal_inputs = << >> /\ reveal_outputs = << >>
    /\ unsigned_commit_tx = None /\ reveal_tx = None
    /\ pc \in {"validate", "done"}
    /\ Done => result.status # "ok"

C13_Witness ==
  /\ Done /\ ~DestinationsMatch /\ batch.mode = "SharedOutput"
  /\ NumDestinations > 1
  /\ result.status = "panic" /\ result.error.kind \in ModeCheckMessages
  /\ key_pair = None /\ reveal_script = None

\* Batch::inscribe has returned
Returned == ipc = "returned"

ConfigurationAndStateErrors ==
  ModeCheckMessages \cup
  {"--next-file doesn't work without --commitment",
   "sat already inscribed", "utxo already inscribed", "not a reinscription",
   "wallet contains no cardinal utxos"}

\* the calls made of the RPC client
ClientCalls == SelectSeq(calls, LAMBDA c : c.to = "client")

\* nothing was signed by the wallet, imported into it or sent to the network
NoSideEffect ==
  /\ imported = FALSE
  /\ broadcast = << >>
  /\ signed_commit_tx = None /\ signed_reveal_tx = None
  /\ \A i \in 1..Len(calls) :
       calls[i].method \notin {"signrawtransactionwithwallet",
                               "importdescriptors", "sendrawtransaction"}

(* C14, as claimed: a configuration or state error is returned by          *)
(* Batch::inscribe before any RPC call and before any key generation.      *)
C14_Original ==
  (Returned /\ returned.error.kind \in ConfigurationAndStateErrors) =>
    /\ ClientCalls = << >>
    /\ key_pair = None

(* C14, amended: such an error comes before any key generation, wallet     *)
(* signing, descriptor import or broadcast, but after the wallet was       *)
(* asked over RPC for its change addresses: one getrawchangeaddress when   *)
(* the caller gave a change address, two otherwise.                        *)
C14_FailFast ==
  (Returned /\ returned.error.kind \in ConfigurationAndStateErrors) =>
    /\ returned.status \in {"err", "panic"}
    /\ key_pair = None /\ reveal_script = None
    /\ unsigned_commit_tx = None /\ reveal_tx = None
    /\ NoSideEffect /\ report = None
    /\ Len(ClientCalls) = (IF IsSome(change_arg) THEN 1 ELSE 2)
    /\ \A i \in 1..Len(ClientCalls) :
         ClientCalls[i] = Call("client", "getrawchangeaddress", TRUE)
    /\ calls = <<Call("index", "get_inscriptions", TRUE)>> \o ClientCalls

C14_Witness ==
  /\ Returned /\ returned.status = "err"
  /\ returned.error.kind = "not a reinscription"
  /\ Len(ClientCalls) = 2 /\ key_pair = None

DustError == "commit transaction output would be dust"

\* the output at the commit input's index is under its dust threshold
DustyReveal ==
  /\ IsSome(reveal_tx)
  /\ OutputAtCommitInput.value < dust_value(OutputAtCommitInput.script_pubkey)

(* C15, as claimed: a dust violation and a weight violation both end the   *)
(* construction before the reveal transaction is signed and before any     *)
(* broadcast.                                                              *)
C15_Original ==
  (Done /\ result.error.kind \in {DustError, WeightError}) =>
    /\ ~Signed
    /\ NoSideEffect

(* C15, amended: a dust violation ends the construction before the reveal  *)
(* transaction is signed; a weight violation is found on the signed        *)
(* reveal transaction, after the commit input's witness was given its      *)
(* signature; neither leaves anything signed by the wallet, imported or    *)
(* broadcast, and Batch::inscribe returns the error without a report.      *)
C15_AbortBeforeBroadcast ==
  /\ DustyReveal => ~Signed /\ prevouts = << >>
  /\ (Done /\ result.error.kind = DustError) => DustyReveal
  /\ (Done /\ result.error.kind = WeightError) =>
       Signed /\ TheReveal.input[CommitInput(batch) + 1].witness[1] = SCHNORR_SIGNATURE_SIZE
  /\ (Done /\ result.error.kind \in {DustError, WeightError}) =>
       /\ result.status = "err"
       /\ NoSideEffect /\ report = None
       /\ ipc \in {"construct", "returned"}
       /\ Returned => returned = result

C15_Witness ==
  /\ Returned /\ returned.error.kind = WeightError
  /\ Signed /\ NoSideEffect

\* a dust violation returned by Batch::inscribe
C15_DustReached ==
  /\ Returned /\ returned.error.kind = DustError /\ ~Signed /\ NoSideEffect

RevealSendFailed ==
  Returned /\ returned.error.kind = "Failed to send reveal transaction"

(* C16: when the broadcast of the reveal transaction fails after the       *)
(* commit transaction was sent, the error says that the commit             *)
(* transaction will be recovered once mined; the failed broadcast is the   *)
(* last call made, nothing being rolled back; when no commit transaction   *)
(* was sent the error says nothing of one.                                 *)
C16_RevealBroadcastFails ==
  RevealSendFailed =>
    /\ returned.status = "err" /\ report = None
    /\ ~batch.no_broadcast /\ ~batch.commit_only
    /\ calls[Len(calls)] = Call("client", "sendrawtransaction", FALSE)
    /\ IF HasCommitment
         THEN /\ broadcast = << >>
              /\ returned.error.commit_note = None
         ELSE /\ broadcast = <<txid(TheCommit)>>
              /\ calls[Len(calls) - 1] = Call("client", "sendrawtransaction", TRUE)
              /\ IsSome(returned.error.commit_note)
              /\ Unwrap(returned.error.commit_note).commit = txid(TheCommit)
              /\ Unwrap(returned.error.commit_note).text =
                   "will be recovered once mined"

C16_Witness ==
  /\ RevealSendFailed /\ ~HasCommitment
  /\ broadcast = <<txid(TheCommit)>>
  /\ IsSome(returned.error.commit_note)

\* the reveal broadcast fails with no commit transaction sent
C16_NoCommitReached ==
  RevealSendFailed /\ HasCommitment /\ returned.error.commit_note = None

TheReport == Unwrap(report)

(* C17: in the report of Batch::inscribe, dry run or not, the commit txid  *)
(* is absent exactly when a commitment was supplied, the reveal txid is    *)
(* absent exactly when commit_only is set, and the inscriptions are none   *)
(* under commit_only and otherwise one per inscription of the batch, the   *)
(* i-th with the id (reveal txid, i).                                      *)
C17_ReportContents ==
  IsSome(report) =>
    /\ Returned /\ returned.status = "ok"
    /\ IsNone(TheReport.commit) <=> HasCommitment
    /\ IsSome(TheReport.commit) => Unwrap(TheReport.commit) = txid(TheCommit)
    /\ IsNone(TheReport.reveal) <=> batch.commit_only
    /\ IsSome(TheReport.reveal) => Unwrap(TheReport.reveal) = txid(TheReveal)
    /\ IF batch.commit_only
         THEN TheReport.inscriptions = << >>
         ELSE /\ Len(TheReport.inscriptions) = NumInscriptions
              /\ \A k \in 1..NumInscriptions :
                   TheReport.inscriptions[k].id =
                     [txid |-> txid(TheReveal), index |-> k - 1]

C17_Witness ==
  /\ IsSome(report) /\ ~batch.dry_run /\ ~batch.commit_only /\ HasCommitment
  /\ NumInscriptions = 2 /\ Len(TheReport.inscriptions) = 2
  /\ IsNone(TheReport.commit) /\ IsSome(TheReport.reveal)

\* reports of a dry run and under commit_only
C17_DryRunReached ==
  IsSome(report) /\ batch.dry_run /\ ~HasCommitment /\ IsSome(TheReport.commit)
C17_CommitOnlyReached ==
  /\ IsSome(report) /\ batch.commit_only /\ NumInscriptions = 2
  /\ TheReport.inscriptions = << >> /\ IsNone(TheReport.reveal)

\* the vout and the offset that Batch::output is to give inscription index i
ExpectedVout(i) ==
  ParentOutputs + (IF batch.mode = "SeparateOutputs" THEN i ELSE 0)
ExpectedOffset(i) ==
  IF batch.mode = "SharedOutput" THEN i * batch.postage ELSE 0

(* C18: the report places inscription i at (reveal txid, vout, offset)     *)
(* with vout 0 (1 after a parent) in SharedOutput and SameSat mode and i   *)
(* (i + 1 after a parent) in SeparateOutputs mode, and offset i x postage  *)
(* in SharedOutput mode and 0 in the other modes; in SharedOutput mode     *)
(* the offset lies strictly inside the aggregate output of the reveal      *)
(* transaction.                                                            *)
C18_ReportedLocations ==
  (IsSome(report) /\ ~batch.commit_only) =>
    \A k \in 1..Len(TheReport.inscriptions) :
      LET at == TheReport.inscriptions[k].location IN
      /\ at.outpoint = OutPoint(txid(TheReveal), ExpectedVout(k - 1))
      /\ at.offset = ExpectedOffset(k - 1)
      /\ at.outpoint.vout + 1 \in 1..Len(TheReveal.output)
      /\ batch.mode = "SharedOutput" =>
           /\ at.offset < TheReveal.output[at.outpoint.vout + 1].value
           /\ TheReveal.output[at.outpoint.vout + 1].script_pubkey =
                batch.destinations[1]

C18_Witness ==
  /\ IsSome(report) /\ batch.mode = "SharedOutput" /\ HasParent
  /\ Len(TheReport.inscriptions) = 2
  /\ TheReport.inscriptions[2].location.outpoint.vout = 1
  /\ TheReport.inscriptions[2].location.offset = batch.postage

\* reports in the other two modes
C18_SeparateReached ==
  /\ IsSome(report) /\ batch.mode = "SeparateOutputs" /\ HasParent
  /\ Len(TheReport.inscriptions) = 2
  /\ TheReport.inscriptions[2].location.outpoint.vout = 2
C18_SameSatReached ==
  /\ IsSome(report) /\ batch.mode = "SameSat"
  /\ Len(TheReport.inscriptions) = 2
  /\ TheReport.inscriptions[2].location.offset = 0

\* the batch at another fee rate, all else the same
AtRate(b, r) == [b EXCEPT !.commit_fee_rate = r, !.reveal_fee_rate = r]

\* the reveal fee that the construction computes for a batch
ComputedRevealFee(b, e) ==
  build_reveal_transaction(b.reveal_fee_rate, InitialRevealInputs(b),
    CommitInput(b), InitialRevealOutputs(b, e),
    append_batch_reveal_script(b.inscriptions, RevealScriptPrefixLen)).fee

\* the commit transaction that the construction funds for a batch
FundedCommit(b, e) ==
  build_transaction(SelectSatpoint(b, e).value, e.wallet_inscriptions, e.utxos,
    e.locked_utxos, e.runic_utxos, CommitTxAddress, e.change,
    b.commit_fee_rate,
    FundingTarget(b, ComputedRevealFee(b, e), TotalPostage(b)), e.force_input)

CommitFee(tx, e) == Unwrap(calculate_fee(tx, e.utxos))

\* the virtual size that the reveal fee is computed over: the fee at one sat
\* per vbyte
EstimatedVsize(b, e) == ComputedRevealFee(AtRate(b, 1000), e)

\* the rates that the batch's rate is compared with
ComparedRates == FeeRates \cup {0, 1001}
HigherRates == {r \in ComparedRates : r > batch.reveal_fee_rate}

\* a constructed batch whose fees were computed, not requested
FeesComputed ==
  /\ Succeeded /\ IsNone(batch.reveal_fee)
  /\ batch.commit_fee_rate = batch.reveal_fee_rate

PaysChange(tx) ==
  \E i \in 1..Len(tx.output) : tx.output[i].script_pubkey = env.change[2]

\* the virtual size that the commit fee is computed over
FundedVsize(tx) ==
  FundingFee(1000, [i \in 1..Len(tx.input) |-> tx.input[i].previous_output],
             tx.output)

C20_DryRun ==
  batch.dry_run =>
    /\ ipc \notin {"backup", "broadcast", "report"}
    /\ NoSideEffect
    /\ commit_result = None /\ reveal_result = None
    /\ \A i \in 1..Len(calls) :
         calls[i].method \in {"get_inscriptions", "getrawchangeaddress",
                              "get_transaction"}
    /\ (Returned /\ Succeeded) =>
         /\ returned.status = "ok" /\ IsSome(report)
         /\ TheReport.commit_hex = None
         /\ TheReport.reveal_hex = None
         /\ TheReport.recovery_descriptor = None
         /\ TheReport.total_fees = total_fees

C20_Witness ==
  /\ batch.dry_run /\ batch.dump /\ Returned /\ IsSome(report)
  /\ TheReport.commit_hex = None /\ TheReport.recovery_descriptor = None
  /\ NoSideEffect

\* without dry_run the dumps are reported
C20_DumpReached ==
  /\ ~batch.dry_run /\ batch.dump /\ IsSome(report)
  /\ IsSome(TheReport.reveal_hex) /\ IsSome(TheReport.recovery_descriptor)

---------------------------------------------------------------------------
(* The change output of a reveal that spends a supplied commitment *)

\* the reveal transaction ends with an output to the reveal change address
HasChangeOutput ==
  /\ Len(TheReveal.output) = ParentOutputs + NumDestinations + 1
  /\ TheReveal.output[Len(TheReveal.output)].script_pubkey
       = RevealChangeAddress(batch, env)

\* the reveal transaction has the parent's and the destinations' outputs only
NoChangeOutput == Len(TheReveal.output) = ParentOutputs + NumDestinations

ZeroRevealFee == batch.reveal_fee = Some(0)

(* C21: when a commitment outpoint is supplied, a successful construction  *)
(* returns a reveal transaction that ends with a change output, unless the *)
(* reveal fee was set to 0 sats: then it has no change output and the      *)
(* whole value spent goes to postage and fees.                             *)
C21_Original ==
  (Succeeded /\ HasCommitment) =>
    IF ZeroRevealFee
      THEN /\ NoChangeOutput
           /\ SpentValue(TheReveal) - PaidValue(TheReveal) + total_postage
                = Unwrap(batch.commitment_output).value + ExtraInputValue
      ELSE HasChangeOutput

\* a reveal fee of 0 sats is accepted for a supplied commitment
C21_Witness ==
  /\ Succeeded /\ HasCommitment /\ ZeroRevealFee
  /\ HasChangeOutput
  /\ TheReveal.output[Len(TheReveal.output)].value
       = Unwrap(batch.commitment_output).value + ExtraInputValue - total_postage

\* at 1 sat/vB a reveal fee of 0 sats is refused
C21_ZeroFeeRefused ==
  /\ Done /\ HasCommitment /\ ZeroRevealFee /\ batch.reveal_fee_rate = 1000
  /\ result.error.kind = "requested reveal_fee is too small"

\* the reveal fee of a successful construction: the requested one, or else
\* the estimate
EffectiveFee ==
  IF IsSome(batch.reveal_fee) THEN RequestedFee ELSE EstimatedMinimum

\* the outputs after the parent's pay the destinations, in order
DestinationsInPlace ==
  \A i \in 1..NumDestinations :
    TheReveal.output[ParentOutputs + i].script_pubkey = batch.destinations[i]

C22_FreshReached == Succeeded /\ ~HasCommitment /\ NoChangeOutput

---------------------------------------------------------------------------
(* The coin selection *)

\* the construction has come to its choice between the placeholder and
\* TransactionBuilder, and has made it
FundingDecided ==
  /\ Assembled /\ pc # "fund"
  /\ result.error.kind # "requested reveal_fee is too small"

\* the commit transaction of a run that reveals a supplied commitment
Placeholder == Transaction(0, << >>, << >>)

(* C23: TransactionBuilder is invoked exactly when no commitment outpoint  *)
(* was supplied (once, when the construction comes to fund the commit),    *)
(* and its funding target is then effective reveal fee + total postage;    *)
(* with a commitment it is never invoked and the commit transaction is the *)
(* empty placeholder.                                                      *)
C23_CoinSelection ==
  /\ Len(builder_calls) <= 1
  /\ (builder_calls # << >>) <=> (FundingDecided /\ ~HasCommitment)
  /\ builder_calls # << >> =>
       /\ builder_calls[1].target.value = EffectiveFee + TotalPostage(batch)
       /\ builder_calls[1].target.kind
            = (IF batch.commit_only THEN "NoChange" ELSE "Value")
  /\ (FundingDecided /\ HasCommitment) => unsigned_commit_tx = Some(Placeholder)

\* a fresh commit transaction for a requested reveal fee above the estimate
C23_Witness ==
  /\ Succeeded /\ ~HasCommitment /\ Len(builder_calls) = 1
  /\ IsSome(batch.reveal_fee) /\ RequestedFee > EstimatedMinimum
  /\ builder_calls[1].target = Target("Value", RequestedFee + total_postage)

\* the placeholder is returned
C23_PlaceholderReached ==
  Succeeded /\ HasCommitment /\ builder_calls = << >> /\ TheCommit = Placeholder

\* the coin selection fails
C23_InsufficientReached ==
  /\ Done /\ ~HasCommitment /\ result.status = "err"
  /\ builder_calls # << >> /\ unsigned_commit_tx = None

---------------------------------------------------------------------------
(* The inputs of the reveal transaction *)

\* the reveal transaction has been built with its commit outpoint
Resolved == IsSome(reveal_tx)

\* the outpoints that a transaction spends, in input order
Spends(tx) == [i \in 1..Len(tx.input) |-> tx.input[i].previous_output]

\* the outpoints of the commit transaction that pay the commit address
CommitOutpoints ==
  IF HasCommitment THEN {Unwrap(batch.commitment)}
  ELSE {OutPoint(txid(TheCommit), i - 1) : i \in
          {j \in 1..Len(TheCommit.output) :
             TheCommit.output[j].script_pubkey = CommitTxAddress}}

ParentOutpoint ==
  IF HasParent THEN <<Unwrap(batch.parent_info).location.outpoint>> ELSE << >>

(* C24: the reveal transaction's inputs are, in order, the parent's        *)
(* outpoint (only with a parent), the commit input, then the extra reveal  *)
(* inputs in the order given; the commit input's index is 1 with a parent  *)
(* and 0 without; once the commit outpoint is resolved no input is the     *)
(* null placeholder, and every input has the sequence number that signals  *)
(* replace-by-fee.                                                         *)
C24_RevealInputs ==
  /\ (Assembled /\ FundingDecided /\ ~Resolved) =>
       reveal_inputs = ParentOutpoint \o <<OutPointNull>> \o batch.reveal_input
  /\ Resolved =>
       /\ \E c \in CommitOutpoints :
            Spends(TheReveal) = ParentOutpoint \o <<c>> \o batch.reveal_input
       /\ Spends(TheReveal)[(IF HasParent THEN 1 ELSE 0) + 1] \in CommitOutpoints
       /\ \A i \in 1..Len(TheReveal.input) :
            /\ TheReveal.input[i].previous_output # OutPointNull
            /\ TheReveal.input[i].sequence = "ENABLE_RBF_NO_LOCKTIME"
  /\ IsSome(signed_reveal_tx) =>
       Spends(Unwrap(signed_reveal_tx)) = Spends(TheReveal)

\* a parent, a supplied commitment and two extra inputs given out of order
C24_Witness ==
  /\ Succeeded /\ HasParent /\ HasCommitment
  /\ batch.reveal_input = <<ExtraInput(2), ExtraInput(1)>>
  /\ Spends(TheReveal)
       = <<ParentLocation.outpoint, Unwrap(batch.commitment),
           ExtraInput(2), ExtraInput(1)>>

\* a fresh commit transaction and no parent
C24_FreshReached ==
  /\ Succeeded /\ ~HasParent /\ ~HasCommitment
  /\ Spends(TheReveal) = <<OutPoint(txid(TheCommit), 0)>>

---------------------------------------------------------------------------
(* The prevouts of the signature hash *)

\* the output that an outpoint of the reveal transaction spends
SpentOutput(o) ==
  IF HasParent /\ o = Unwrap(batch.parent_info).location.outpoint
    THEN Unwrap(batch.parent_info).tx_out
  ELSE IF o \in DOMAIN env.index THEN env.index[o]
  ELSE IF HasCommitment
    THEN TxOut(Unwrap(batch.commitment_output).script_pub_key,
               Unwrap(batch.commitment_output).value)
  ELSE TheCommit.output[o.vout + 1]

\* the prevouts have been collected
PrevoutsCollected == pc \in {"account", "done"} /\ prevouts # << >>

(* C25: the prevouts used for the signature hash are as many as the reveal *)
(* transaction's inputs, and the i-th is the output that the i-th input    *)
(* spends: the parent's output first with a parent, then the output of the *)
(* commit transaction or the supplied commitment's, then the outputs of    *)
(* the extra reveal inputs in order.                                       *)
C25_Prevouts ==
  PrevoutsCollected =>
    /\ Len(prevouts) = Len(TheReveal.input)
    /\ \A i \in 1..Len(prevouts) :
         prevouts[i] = SpentOutput(TheReveal.input[i].previous_output)
    /\ result.error.kind # "signature hash should compute"

\* a parent, a supplied commitment and two extra inputs given out of order
C25_Witness ==
  /\ Succeeded /\ HasParent /\ HasCommitment
  /\ batch.reveal_input = <<ExtraInput(2), ExtraInput(1)>>
  /\ prevouts = <<TheParentInfo.tx_out, TxOut(CommitTxAddress, 50000),
                  env.index[ExtraInput(2)], env.index[ExtraInput(1)]>>
  /\ env.index[ExtraInput(2)] # env.index[ExtraInput(1)]

\* a fresh commit transaction whose output at the commit outpoint is spent
C25_FreshReached ==
  /\ Succeeded /\ ~HasCommitment /\ HasParent
  /\ prevouts = <<TheParentInfo.tx_out, CommitOutputOfReveal>>

---------------------------------------------------------------------------
(* The fee that the reveal transaction pays *)

\* what the reveal transaction's inputs bring less what its outputs pay
RealizedRevealFee == SpentValue(TheReveal) - PaidValue(TheReveal)

\* the fee of the reveal transaction as returned, computed anew
RecomputedFee ==
  build_reveal_transaction(batch.reveal_fee_rate, Spends(TheReveal),
                           CommitInput(batch), TheReveal.output,
                           Unwrap(reveal_script)).fee

\* the commit output of a fresh commit transaction holds the funding target
CommitOutputIsTarget ==
  CommitOutputOfReveal.value = EffectiveFee + TotalPostage(batch)

(* C26: for every successful construction that is not commit_only, the     *)
(* reveal transaction's input values less its output values equal the      *)
(* effective reveal fee fixed before funding, with a fresh commit          *)
(* transaction whose commit output equals the funding target and with a    *)
(* supplied commitment alike; and the fee estimated with the null          *)
(* placeholder and the zero-valued change equals the fee recomputed from   *)
(* the reveal transaction with its commit outpoint and change value.       *)
C26_RealizedRevealFee ==
  (Succeeded /\ ~batch.commit_only /\ (HasCommitment \/ CommitOutputIsTarget)) =>
    /\ RealizedRevealFee = EffectiveFee
    /\ RealizedRevealFee = reveal_fee
    /\ RecomputedFee = EstimatedMinimum

\* a supplied commitment with extra inputs, a parent and a requested fee
C26_Witness ==
  /\ Succeeded /\ HasCommitment /\ HasParent /\ Len(batch.reveal_input) > 0
  /\ IsSome(batch.reveal_fee) /\ RequestedFee > EstimatedMinimum
  /\ RealizedRevealFee = RequestedFee

\* a fresh commit transaction and an estimated fee
C26_FreshReached ==
  /\ Succeeded /\ ~HasCommitment /\ ~batch.commit_only /\ CommitOutputIsTarget
  /\ IsNone(batch.reveal_fee) /\ RealizedRevealFee = EstimatedMinimum
  /\ EstimatedMinimum > 0

---------------------------------------------------------------------------
(* A supplied commitment that cannot pay for the reveal *)

\* the commitment and the extra inputs bring less than postage and fee
Shortfall ==
  /\ HasCommitment
  /\ Unwrap(batch.commitment_output).value + ExtraInputValue
       < TotalPostage(batch) + EffectiveFee

(* C27: with a supplied commitment whose value plus the extra reveal       *)
(* inputs' values is less than total postage plus the effective reveal     *)
(* fee, the construction aborts and returns no transaction; and no         *)
(* returned reveal transaction pays out more than its inputs bring or has  *)
(* a change value that wrapped around.                                     *)
C27_NoOverspend ==
  /\ (Done /\ Assembled /\ Shortfall) => (NoTransactions /\ reveal_tx = None)
  /\ Succeeded =>
       /\ PaidValue(TheReveal) <= SpentValue(TheReveal)
       /\ \A i \in 1..Len(TheReveal.output) : TheReveal.output[i].value >= 0
       /\ HasCommitment =>
            TheReveal.output[Len(TheReveal.output)].value
              <= Unwrap(batch.commitment_output).value + ExtraInputValue

\* the subtraction of the change value panics
C27_Witness ==
  /\ Done /\ Assembled /\ Shortfall
  /\ result.status = "panic" /\ result.error.kind = "Amount subtraction error"
  /\ Len(batch.reveal_input) > 0

\* the commitment pays for the reveal exactly, or with change to spare
C27_EnoughReached ==
  /\ Succeeded /\ HasCommitment /\ ~Shortfall
  /\ TheReveal.output[Len(TheReveal.output)].value > 0

---------------------------------------------------------------------------
(* The order of the backup and the broadcasts *)

\* the places in the log of the calls of a method of the RPC client
CallsOf(method) ==
  {i \in 1..Len(calls) : calls[i].to = "client" /\ calls[i].method = method}

\* no backup is made: no_backup is set, or a signing key was supplied
BackupOff == batch.no_backup \/ IsSome(batch.key)

(* C28: Batch::inscribe sends no transaction unless the backup of the      *)
(* recovery key has succeeded or the backup is off (no_backup set or a     *)
(* signing key supplied): the backup comes before every send, and a        *)
(* descriptor import that fails ends the run with nothing sent.            *)
C28_BackupBeforeBroadcast ==
  /\ broadcast # << >> => (imported \/ BackupOff)
  /\ \A i \in CallsOf("sendrawtransaction") :
       \/ BackupOff
       \/ /\ imported
          /\ \E j \in CallsOf("importdescriptors") : j < i /\ calls[j].ok
  /\ BackupOff => (CallsOf("importdescriptors") = {} /\ ~imported)
  /\ (\/ returned.error.kind = "commit tx recovery key import failed"
      \/ \E j \in CallsOf("importdescriptors") : ~calls[j].ok) =>
       /\ returned.status = "err"
       /\ broadcast = << >>
       /\ CallsOf("sendrawtransaction") = {}

\* both transactions are sent after the recovery key was imported
C28_Witness ==
  /\ returned.status = "ok" /\ ~BackupOff /\ imported
  /\ Len(broadcast) = 2
  /\ CallsOf("importdescriptors") # {}

\* the import reports a failure
C28_ImportFailedReached ==
  /\ returned.error.kind = "commit tx recovery key import failed"
  /\ ~imported /\ broadcast = << >>

\* a fresh commit transaction is sent under a supplied key, with no backup
C28_KeyReached ==
  /\ broadcast # << >> /\ ~HasCommitment /\ IsSome(batch.key)
  /\ ~batch.no_backup /\ ~imported

---------------------------------------------------------------------------
(* The order of the broadcasts *)

\* the outcomes of the sends, in order
Sends ==
  LET sent == SelectSeq(calls, LAMBDA c : c.method = "sendrawtransaction")
  IN [i \in 1..Len(sent) |-> sent[i].ok]

(* C29: Batch::inscribe sends the reveal transaction only after the send   *)
(* of the commit transaction has succeeded, or when a commitment was       *)
(* supplied and no commit transaction is sent; when the send of the commit *)
(* transaction fails the reveal is not sent, under commit_only the reveal  *)
(* is not sent, and under no_broadcast nothing is sent.                    *)
C29_BroadcastOrder ==
  /\ batch.no_broadcast => (Sends = << >> /\ broadcast = << >>)
  /\ HasCommitment =>
       /\ Sends \in {<< >>, <<TRUE>>, <<FALSE>>}
       /\ broadcast = IF Sends = <<TRUE>> THEN <<txid(TheReveal)>> ELSE << >>
  /\ batch.commit_only =>
       /\ Sends \in {<< >>, <<TRUE>>, <<FALSE>>}
       /\ broadcast = IF Sends = <<TRUE>> THEN <<txid(TheCommit)>> ELSE << >>
  /\ (~HasCommitment /\ ~batch.commit_only) =>
       /\ Sends \in {<< >>, <<FALSE>>, <<TRUE, TRUE>>, <<TRUE, FALSE>>}
       /\ broadcast =
            IF Sends = <<TRUE, TRUE>> THEN <<txid(TheCommit), txid(TheReveal)>>
            ELSE IF Sends = <<TRUE, FALSE>> THEN <<txid(TheCommit)>>
            ELSE << >>
  /\ Sends = <<FALSE>> => returned.status = "err"

\* the commit transaction is sent, then the reveal transaction
C29_Witness ==
  /\ returned.status = "ok" /\ ~HasCommitment /\ ~batch.commit_only
  /\ Sends = <<TRUE, TRUE>> /\ Len(broadcast) = 2

\* the send of the commit transaction fails
C29_CommitFailedReached ==
  /\ ~HasCommitment /\ ~batch.commit_only /\ Sends = <<FALSE>>
  /\ broadcast = << >> /\ returned.status = "err"

\* under no_broadcast both transactions are decoded and none is sent
C29_NoBroadcastReached ==
  /\ returned.status = "ok" /\ batch.no_broadcast /\ ~HasCommitment
  /\ ~batch.commit_only /\ Sends = << >>
  /\ Cardinality(CallsOf("decoderawtransaction")) = 2

\* a supplied commitment: the reveal transaction is sent alone
C29_CommitmentReached ==
  /\ returned.status = "ok" /\ HasCommitment /\ Sends = <<TRUE>>

---------------------------------------------------------------------------
(* What Batchfile::inscriptions returns *)

TheBatchfile == Unwrap(bf_call).self

BatchfileReturned == bf_pc = "returned"
BatchfileSucceeded == bf_pc = "returned" /\ bf_result.status = "ok"

\* an entry of the batchfile sets a destination
EntrySetsDestination ==
  \E i \in 1..Len(TheBatchfile.inscriptions) :
    IsSome(TheBatchfile.inscriptions[i].destination)

(* C30: every successful call of Batchfile::inscriptions returns a         *)
(* destination list that passes the mode check of the batch (one           *)
(* destination for SharedOutput and SameSat, one per entry for             *)
(* SeparateOutputs) and one inscription per entry; a SharedOutput          *)
(* batchfile in which an entry sets a destination is rejected with an      *)
(* error.                                                                  *)
C30_BatchfileDestinations ==
  bf_pc # "idle" =>
    /\ BatchfileSucceeded =>
         /\ ModeCheck([mode         |-> TheBatchfile.mode,
                       destinations |-> bf_destinations,
                       inscriptions |-> bf_inscriptions])
         /\ Len(bf_inscriptions) = Len(TheBatchfile.inscriptions)
         /\ Len(bf_destinations) =
              (IF TheBatchfile.mode = "SeparateOutputs"
                 THEN Len(TheBatchfile.inscriptions) ELSE 1)
    /\ (/\ BatchfileReturned
        /\ TheBatchfile.mode = "SharedOutput"
        /\ EntrySetsDestination) =>
         /\ bf_result.status = "err"
         /\ bf_result.error.kind =
              "individual inscription destinations cannot be set in shared-output mode"
         /\ bf_inscriptions = << >> /\ bf_destinations = << >>

\* separate outputs: one entry with a destination of its own, one without
C30_Witness ==
  /\ BatchfileSucceeded /\ TheBatchfile.mode = "SeparateOutputs"
  /\ Len(TheBatchfile.inscriptions) = 2
  /\ IsSome(TheBatchfile.inscriptions[1].destination)
  /\ IsNone(TheBatchfile.inscriptions[2].destination)
  /\ bf_destinations = <<Script("p2tr", "recipient"), Script("p2tr", "change")>>
  /\ Len(bf_inscriptions) = 2

\* a shared-output batchfile with a destination in an entry is rejected
C30_RejectedReached ==
  /\ BatchfileReturned /\ TheBatchfile.mode = "SharedOutput"
  /\ EntrySetsDestination /\ bf_result.status = "err"

\* a same-sat batchfile with a destination in an entry succeeds
C30_SameSatReached ==
  /\ BatchfileSucceeded /\ TheBatchfile.mode = "SameSat"
  /\ EntrySetsDestination /\ Len(TheBatchfile.inscriptions) = 2
  /\ bf_destinations = <<Script("p2tr", "change")>>

====
